---- MODULE Spec2Model ----
(***************************************************************************)
(* A model of the daily-papers pipeline (src/main.py, src/utils.py):       *)
(*   - the run orchestrator main(): already-updated check, backup,         *)
(*     per-keyword / per-source fetch loop, archive, backup removal and     *)
(*     the restore path of its except clause;                               *)
(*   - the seven retry wrappers get_daily_papers_by_keyword_with_retries*   *)
(*     and what each source adapter does with a provider response;          *)
(*   - the DVCon asset pipeline (download_dvcon_assets followed by          *)
(*     extract_abstracts_from_downloaded_dvcon_pdfs);                       *)
(*   - the final projection of a paper to column_names.                     *)
(* Provider responses, environment variables and the files found on disk    *)
(* are the environment: they are drawn from small sets.  Operating-system   *)
(* I/O errors on the output files are outside the model.                    *)
(***************************************************************************)
EXTENDS Integers, Sequences, FiniteSets, TLC

---------------------------------------------------------------------------
(* Bounds of the model *)

\* the largest number of papers one provider response normalises to
MaxPapers == 2

(* Program constants *)

\* retries=6 of the arXiv wrapper
ArxivRetries == 6
\* retries=3 of every other wrapper
OtherRetries == 3

---------------------------------------------------------------------------
(* Sources, in the order main() processes them for one keyword *)

SourceOrder ==
    <<"dvcon", "ieee", "acm", "crossref", "openalex", "semanticscholar", "arxiv">>

ExtraSources == {"dvcon", "ieee", "acm", "crossref", "openalex", "semanticscholar"}

Sources == ExtraSources \cup {"arxiv"}

---------------------------------------------------------------------------
(* Values *)

\* A file on disk: absent, or present with a content (a sequence of tokens
\* <<kind, name, rows>>, one per block the program writes).
Absent == [exists |-> FALSE, content |-> <<>>]

File(c) == [exists |-> TRUE, content |-> c]

\* README.md left by an earlier day's run, and by a run of the current day
OldReadme == File(<< <<"last-update", "earlier", 0>> >>)

TodayReadme == File(<< <<"last-update", "today", 0>> >>)

OldIssue == File(<< <<"issue", "earlier", 0>> >>)

\* the header main() writes into README.md (Last update: current_date)
ReadmeHeader == << <<"last-update", "today", 0>> >>

\* the front matter main() writes into .github/ISSUE_TEMPLATE.md
IssueHeader == << <<"issue", "today", 0>> >>

\* The value a wrapper returns: a list of papers, or None.
ListValue(ps) == [isNone |-> FALSE, papers |-> ps]

NoneValue == [isNone |-> TRUE, papers |-> <<>>]

\* Python truthiness of a returned value (if papers:)
Truthy(v) == ~v.isNone /\ Len(v.papers) > 0

---------------------------------------------------------------------------
(* Papers *)

EpochDate == "1970-01-01T00:00:00Z"

\* A link: a page URL (kind "http") or a local relative path (kind "local");
\* seg is the last path segment, a sequence of lower-case name tokens.
HttpLink(seg) == [kind |-> "http", seg |-> seg]

LocalLink(seg) == [kind |-> "local", seg |-> seg]

\* The i-th paper a source adapter normalises from a provider response.  A
\* DVCon entry links to its proceedings page, has no abstract, and carries
\* the epoch placeholder unless a year was found in its title or URL.
MkPaper(src, i) ==
    [Title    |-> <<src, i>>,
     Link     |-> HttpLink(<<ToString(i)>>),
     Abstract |-> IF src = "dvcon" THEN "" ELSE "abstract",
     Date     |-> IF src = "dvcon" /\ i = 1 THEN EpochDate
                  ELSE "2024-01-01T00:00:00Z"]

Papers(src, n) == [i \in 1..n |-> MkPaper(src, i)]

---------------------------------------------------------------------------
(* What a provider answers during one adapter call: a response that         *)
(* normalises (and filters) to n papers, or an HTTP error status.           *)

OkResponse(n) == [kind |-> "ok", code |-> 200, n |-> n]

HttpError(c) == [kind |-> "http", code |-> c, n |-> 0]

Responses == {OkResponse(n) : n \in 0..MaxPapers} \cup {HttpError(404), HttpError(500)}

\* What an adapter call does: return a list, or raise an exception.
\* net is TRUE when the call issued an HTTP request.
Returns(ps) == [kind |-> "list", papers |-> ps, exc |-> "", code |-> 0, net |-> TRUE]

Raises(e, c, n) == [kind |-> "raise", papers |-> <<>>, exc |-> e, code |-> c, net |-> n]

\* request_paper_with_arxiv_api, request_papers_with_crossref,
\* request_papers_with_openalex, request_papers_with_semantic_scholar:
\* urllib.request.urlopen raises urllib.error.HTTPError, logged and re-raised.
UrllibAdapter(src, resp) ==
    IF resp.kind = "http"
    THEN Raises("urllib.error.HTTPError", resp.code, TRUE)
    ELSE Returns(Papers(src, resp.n))

\* request_papers_with_acm_api: a missing ACM_ACCESS_TOKEN raises RuntimeError
\* before any request; a requests.RequestException (raise_for_status) breaks
\* out of the pagination loop and the papers collected so far are returned.
AcmAdapter(token, resp) ==
    IF ~token
    THEN Raises("RuntimeError", 0, FALSE)
    ELSE IF resp.kind = "http"
    THEN Returns(<<>>)
    ELSE Returns(Papers("acm", resp.n))

\* request_papers_with_ieee_keyword: _ieee_search_page catches every
\* requests.RequestException, gives up after its own retries and returns None,
\* which the adapter turns into an empty list.
IeeeAdapter(resp) ==
    IF resp.kind = "http"
    THEN Returns(<<>>)
    ELSE Returns(Papers("ieee", resp.n))

\* get_daily_papers_by_keyword_from_dvcon: requests raise_for_status raises
\* requests.HTTPError, logged and re-raised.
DvconAdapter(resp) ==
    IF resp.kind = "http"
    THEN Raises("requests.HTTPError", resp.code, TRUE)
    ELSE Returns(Papers("dvcon", resp.n))

Adapter(src, token, resp) ==
    CASE src = "acm"   -> AcmAdapter(token, resp)
      [] src = "ieee"  -> IeeeAdapter(resp)
      [] src = "dvcon" -> DvconAdapter(resp)
      [] OTHER         -> UrllibAdapter(src, resp)

---------------------------------------------------------------------------
(* The retry wrappers *)

\* the retries default of each wrapper
Retries(src) == IF src = "arxiv" THEN ArxivRetries ELSE OtherRetries

\* the wrappers whose except clause tests
\* isinstance(exc, urllib.error.HTTPError) and 400 <= exc.code < 500
HasClientErrorCheck(src) ==
    src \in {"crossref", "openalex", "semanticscholar", "acm", "ieee"}

IsClientError(src, out) ==
    /\ HasClientErrorCheck(src)
    /\ out.exc = "urllib.error.HTTPError"
    /\ 400 <= out.code
    /\ out.code < 500

\* the value returned after the for loop: [] everywhere, None in the IEEE wrapper
ExhaustedValue(src) == IF src = "ieee" THEN NoneValue ELSE ListValue(<<>>)

\* A wrapper that treats papers like an empty result: it sleeps and tries
\* again instead of returning them.
WrapperBodyRetriesAfterSuccess(src, attempt, out) ==
    IF out.kind = "list"
    THEN [ret |-> FALSE, value |-> NoneValue, slept |-> TRUE]
    ELSE IF IsClientError(src, out)
         THEN [ret |-> TRUE, value |-> ListValue(<<>>), slept |-> FALSE]
         ELSE [ret |-> FALSE, value |-> NoneValue,
               slept |-> attempt < Retries(src) - 1]

\* One iteration of "for attempt in range(retries)" on the adapter outcome
\* out: whether the wrapper returns in this iteration (ret, value), and
\* whether it sleeps (slept).
WrapperBody(src, attempt, out) ==
    IF out.kind = "list"
    THEN IF Len(out.papers) > 0
         THEN [ret |-> TRUE, value |-> ListValue(out.papers), slept |-> FALSE]
         ELSE [ret |-> FALSE, value |-> NoneValue, slept |-> TRUE]
    ELSE IF IsClientError(src, out)
         THEN [ret |-> TRUE, value |-> ListValue(<<>>), slept |-> FALSE]
         ELSE [ret |-> FALSE, value |-> NoneValue,
               slept |-> attempt < Retries(src) - 1]

\* The iteration with the loop's exit: after the last iteration the wrapper
\* falls out of the loop and returns ExhaustedValue.
WrapperStep(src, attempt, out) ==
    LET b == WrapperBody(src, attempt, out) IN
    IF b.ret \/ attempt < Retries(src) - 1
    THEN b
    ELSE [ret |-> TRUE, value |-> ExhaustedValue(src), slept |-> b.slept]

\* How the wrapper sees the provider in one attempt (for the history).
Outcome(src, token, resp) ==
    IF src = "acm" /\ ~token THEN "no-token"
    ELSE IF resp.kind = "http"
         THEN (IF 400 <= resp.code /\ resp.code < 500 THEN "4xx" ELSE "5xx")
         ELSE (IF resp.n > 0 THEN "papers" ELSE "empty")

---------------------------------------------------------------------------
(* Command line *)

AllExtras ==
    {"crossref", "acm", "openalex", "dvcon", "ieee", "semanticscholar"}

\* main(): the defaults applied to the parsed arguments.  The verification
\* profile fixes the keywords and, like --source all, turns every extra
\* source on when none was enabled explicitly.
ApplyDefaults(a) ==
    LET kws == IF a.profile = "verification" THEN <<"verification", "UVM">>
               ELSE a.keywords
        inc == IF a.include = {} /\ (a.profile = "verification" \/ a.source = "all")
               THEN AllExtras
               ELSE a.include
    IN [a EXCEPT !.keywords = kws, !.include = inc]

\* main(): whether source src is queried ("if args.include_<src>:",
\* 'if args.source in ["arxiv", "all"]:')
Queried(a, src) ==
    IF src = "arxiv" THEN a.source \in {"arxiv", "all"} ELSE src \in a.include

---------------------------------------------------------------------------
(* The output files and their backups *)

\* back_up_files: each output file that exists is moved to its .bk sibling.
back_up_files(f) ==
    LET g == IF f.readme.exists
             THEN [f EXCEPT !.readmeBk = f.readme, !.readme = Absent]
             ELSE f
    IN IF g.issue.exists
       THEN [g EXCEPT !.issueBk = g.issue, !.issue = Absent]
       ELSE g

\* restore_files: each backup that exists is moved back over its original.
restore_files(f) ==
    LET g == IF f.readmeBk.exists
             THEN [f EXCEPT !.readme = f.readmeBk, !.readmeBk = Absent]
             ELSE f
    IN IF g.issueBk.exists
       THEN [g EXCEPT !.issue = g.issueBk, !.issueBk = Absent]
       ELSE g

\* A removal that forgets the issue template's backup.
remove_backups_readme_only(f) ==
    [f EXCEPT !.readmeBk = Absent]

\* remove_backups: each backup that exists is deleted.
remove_backups(f) ==
    [f EXCEPT !.readmeBk = Absent, !.issueBk = Absent]

\* open(path, "a").write(...): a block appended to an existing file
Append2(file, tok) == File(Append(file.content, tok))

\* main(): "## keyword" written to both output files
WriteHeading(f, kw) ==
    [f EXCEPT !.readme = Append2(f.readme, <<"keyword", kw, 0>>),
              !.issue  = Append2(f.issue,  <<"keyword", kw, 0>>)]

\* main(): "### <source>" and generate_table(papers) written to README.md,
\* generate_table(papers[:issues_results], ignore_keys) to the issue
\* template.  generate_table gives "" for an empty list: rows is 0 then.
WriteSection(f, src, ps) ==
    LET rows == IF Len(ps) > 0 THEN 1 ELSE 0 IN
    [f EXCEPT !.readme = Append2(f.readme, <<"section", src, rows>>),
              !.issue  = Append2(f.issue,  <<"section", src, rows>>)]

---------------------------------------------------------------------------
(* The DVCon download directory *)

\* the file name of the asset the i-th entry's detail page links to
AssetName(i) ==
    IF i = 1 THEN <<"1", ".pdf">> ELSE <<"dv", ToString(i), ".pdf">>

AssetNames == {AssetName(i) : i \in 1..MaxPapers}

\* Path.stem: the file name without its extension
Stem(name) == SubSeq(name, 1, Len(name) - 1)

\* b in a (Python substring test, on name tokens)
Contains(a, b) ==
    \E k \in 0..(Len(a) - Len(b)) : SubSeq(a, k + 1, k + Len(b)) = b

\* the PDFs pdf_dir.glob("*.pdf") finds
PdfFiles(dl) == {nm \in DOMAIN dl : dl[nm] # "absent"}

\* extract_abstracts_from_downloaded_dvcon_pdfs: the PDFs an entry with URL
\* stem us may be matched to: the one with that stem when there is one,
\* otherwise the first of url_to_pdf (in directory order, which the program
\* does not control) whose stem contains us or is contained in it.
MatchingPdfs(dl, us) ==
    LET exact == {nm \in PdfFiles(dl) : Stem(nm) = us} IN
    IF us # <<>> /\ exact # {}
    THEN exact
    ELSE {nm \in PdfFiles(dl) : Contains(Stem(nm), us) \/ Contains(us, Stem(nm))}

---------------------------------------------------------------------------
(* State *)

VARIABLES
    args,       \* the parsed command line, defaults applied
    acmToken,   \* whether ACM_ACCESS_TOKEN is set
    fs,         \* README.md, .github/ISSUE_TEMPLATE.md, their .bk, the archive
    pre,        \* fs as it was when the run started
    downloads,  \* downloads/dvcon: file name -> "absent" | "full" | "corrupt"
    pc,         \* where main() is
    kwIdx,      \* index of the keyword being processed
    srcIdx,     \* index in SourceOrder of the source being processed
    attempt,    \* the running wrapper's loop variable
    calls,      \* adapter calls made by the running wrapper
    sleeps,     \* time.sleep calls made by the running wrapper
    netCalls,   \* adapter calls of the running wrapper that issued a request
    uniform,    \* the provider outcome of every attempt so far, or "mixed"
    last,       \* the provider outcome of its latest attempt
    fetched,    \* the papers of that attempt ("papers" outcome)
    result,     \* the value the wrapper returned (papers, dvcon_papers, ...)
    entIdx,     \* index of the DVCon entry being processed
    entries0,   \* the DVCon entries as the wrapper returned them
    failed,     \* indices of the DVCon entries whose processing failed
    raised,     \* the exception propagating out of main's try block, or ""
    \* the column selection of one adapter call, taken on its own
    pjSrc,      \* the source whose get_daily_papers_by_keyword* runs
    pjPapers,   \* the normalised (and filtered) papers it selects from
    pjCols,     \* its column_names argument
    pjOut,      \* what the selection gave: the rows, or the exception raised
    \* one call of a function of src/utils.py or src/main.py, taken on its own
    fn,         \* the function called
    fnArg,      \* its arguments
    fnOut       \* what the call gave: [state |-> "idle" | "value" | <exception>, ...]

mainVars ==
    <<args, acmToken, fs, pre, downloads, pc, kwIdx, srcIdx, attempt, calls,
      sleeps, netCalls, uniform, last, fetched, result, entIdx, entries0, failed,
      raised>>

fnVars == <<fn, fnArg, fnOut>>

pureVars == <<pjSrc, pjPapers, pjCols, pjOut, fn, fnArg, fnOut>>

vars == <<mainVars, pureVars>>

wrapperVars == <<attempt, calls, sleeps, netCalls, uniform, last, fetched, result>>

dvconVars == <<downloads, entIdx, entries0, failed>>

\* the wrapper's frame is gone once main() has taken its return value
WrapperIdle ==
    /\ attempt' = 0
    /\ calls' = 0
    /\ sleeps' = 0
    /\ netCalls' = 0
    /\ uniform' = ""
    /\ last' = ""
    /\ fetched' = <<>>
    /\ result' = ListValue(<<>>)

Src == SourceOrder[srcIdx]

---------------------------------------------------------------------------
(* Initial states: the command lines, environments and disks of a run *)

CommandLines ==
    {[source |-> s, include |-> inc, download |-> d, force |-> f,
      profile |-> "general", keywords |-> <<"UVM">>] :
        s \in {"all", "arxiv", "dvcon"},
        inc \in {{}, {"dvcon"}, {"ieee", "acm"}},
        d \in BOOLEAN, f \in BOOLEAN}

Disks ==
    {[readme |-> r, issue |-> i, readmeBk |-> Absent, issueBk |-> Absent,
      archive |-> Absent] :
        r \in {Absent, OldReadme, TodayReadme}, i \in {Absent, OldIssue}}

\* no function is called on its own
FnIdle ==
    /\ fn = ""
    /\ fnArg = <<>>
    /\ fnOut = [state |-> "idle"]

\* the column selection is not running
PureIdle ==
    /\ FnIdle
    /\ pjSrc = "arxiv"
    /\ pjPapers = <<>>
    /\ pjCols = <<>>
    /\ pjOut = [state |-> "idle", rows |-> <<>>]

Init ==
    /\ PureIdle
    /\ \E a \in CommandLines :
          /\ args = ApplyDefaults(a)
          /\ a.download => "dvcon" \in args.include
    /\ acmToken \in BOOLEAN
    /\ "acm" \notin args.include => acmToken
    /\ fs \in Disks
    /\ args.force => fs.readme = TodayReadme
    /\ pre = fs
    /\ downloads \in [AssetNames -> {"absent", "full", "corrupt"}]
    /\ ~args.download => \A nm \in AssetNames : downloads[nm] = "absent"
    /\ pc = "start"
    /\ kwIdx = 1
    /\ srcIdx = 1
    /\ attempt = 0
    /\ calls = 0
    /\ sleeps = 0
    /\ netCalls = 0
    /\ uniform = ""
    /\ last = ""
    /\ fetched = <<>>
    /\ result = ListValue(<<>>)
    /\ entIdx = 1
    /\ entries0 = <<>>
    /\ failed = {}
    /\ raised = ""

---------------------------------------------------------------------------
(* main(): before the keyword loop *)

\* the date on README.md's "Last update:" line
LastUpdate(file) == file.content[1][2]

\* A check that never finds README.md up to date.
CheckLastUpdateNeverReturns ==
    /\ pc = "start"
    /\ UNCHANGED pureVars
    /\ pc' = "backup"
    /\ UNCHANGED <<args, acmToken, fs, pre, kwIdx, srcIdx, raised>>
    /\ UNCHANGED wrapperVars
    /\ UNCHANGED dvconVars

\* "Check last update date": return when README.md is of the current date
\* and --force-update is not given
CheckLastUpdate ==
    /\ pc = "start"
    /\ UNCHANGED pureVars
    /\ pc' = IF fs.readme.exists /\ LastUpdate(fs.readme) = "today" /\ ~args.force
             THEN "skipped"
             ELSE "backup"
    /\ UNCHANGED <<args, acmToken, fs, pre, kwIdx, srcIdx, raised>>
    /\ UNCHANGED wrapperVars
    /\ UNCHANGED dvconVars

\* back_up_files(), first statement of the try block
BackUpFiles ==
    /\ pc = "backup"
    /\ UNCHANGED pureVars
    /\ fs' = back_up_files(fs)
    /\ pc' = "header"
    /\ UNCHANGED <<args, acmToken, pre, kwIdx, srcIdx, raised>>
    /\ UNCHANGED wrapperVars
    /\ UNCHANGED dvconVars

\* open("README.md", "w") and open(".github/ISSUE_TEMPLATE.md", "w")
WriteHeaders ==
    /\ pc = "header"
    /\ UNCHANGED pureVars
    /\ fs' = [fs EXCEPT !.readme = File(ReadmeHeader), !.issue = File(IssueHeader)]
    /\ pc' = "keyword"
    /\ kwIdx' = 1
    /\ UNCHANGED <<args, acmToken, pre, srcIdx, raised>>
    /\ UNCHANGED wrapperVars
    /\ UNCHANGED dvconVars

---------------------------------------------------------------------------
(* main(): the keyword loop and the sources of one keyword *)

\* "for keyword in args.keywords": the heading, or the end of the loop
NextKeyword ==
    /\ pc = "keyword"
    /\ UNCHANGED pureVars
    /\ IF kwIdx <= Len(args.keywords)
       THEN /\ fs' = WriteHeading(fs, args.keywords[kwIdx])
            /\ srcIdx' = 1
            /\ pc' = "source"
       ELSE /\ pc' = "post"
            /\ UNCHANGED <<fs, srcIdx>>
    /\ UNCHANGED <<args, acmToken, pre, kwIdx, raised>>
    /\ UNCHANGED wrapperVars
    /\ UNCHANGED dvconVars

\* the next "if args.include_<src>:" block: skipped, or its wrapper is called
NextSource ==
    /\ pc = "source"
    /\ UNCHANGED pureVars
    /\ srcIdx <= Len(SourceOrder)
    /\ IF Queried(args, Src)
       THEN /\ pc' = "fetch"
            /\ UNCHANGED srcIdx
       ELSE /\ srcIdx' = srcIdx + 1
            /\ UNCHANGED pc
    /\ UNCHANGED wrapperVars
    /\ UNCHANGED <<args, acmToken, fs, pre, kwIdx, raised>>
    /\ UNCHANGED dvconVars

\* time.sleep(5) at the end of the keyword's block
EndKeyword ==
    /\ pc = "source"
    /\ UNCHANGED pureVars
    /\ srcIdx > Len(SourceOrder)
    /\ kwIdx' = kwIdx + 1
    /\ pc' = "keyword"
    /\ UNCHANGED <<args, acmToken, fs, pre, srcIdx, raised>>
    /\ UNCHANGED wrapperVars
    /\ UNCHANGED dvconVars

\* One iteration of the running wrapper's retry loop: the adapter call, the
\* handling of what it returned or raised, the sleep, and the return.
WrapperIteration ==
    /\ pc = "fetch"
    /\ UNCHANGED pureVars
    /\ \E resp \in Responses :
          LET out == Adapter(Src, acmToken, resp)
              st  == WrapperStep(Src, attempt, out)
              oc  == Outcome(Src, acmToken, resp)
          IN /\ calls' = calls + 1
             /\ netCalls' = IF out.net THEN netCalls + 1 ELSE netCalls
             /\ sleeps' = IF st.slept THEN sleeps + 1 ELSE sleeps
             /\ uniform' = IF calls = 0 \/ uniform = oc THEN oc ELSE "mixed"
             /\ last' = oc
             /\ fetched' = out.papers
             /\ IF st.ret
                THEN /\ result' = st.value
                     /\ pc' = "fetched"
                     /\ UNCHANGED attempt
                ELSE /\ attempt' = attempt + 1
                     /\ UNCHANGED <<result, pc>>
    /\ UNCHANGED <<args, acmToken, fs, pre, kwIdx, srcIdx, raised>>
    /\ UNCHANGED dvconVars

\* an extra source other than DVCon (and DVCon without
\* --download-dvcon-assets): "if <src>_papers:" then the section is written
ConsumeExtra ==
    /\ pc = "fetched"
    /\ UNCHANGED pureVars
    /\ Src # "arxiv"
    /\ ~(Src = "dvcon" /\ args.download /\ Truthy(result))
    /\ fs' = IF Truthy(result) THEN WriteSection(fs, Src, result.papers) ELSE fs
    /\ srcIdx' = srcIdx + 1
    /\ pc' = "source"
    /\ WrapperIdle
    /\ UNCHANGED <<args, acmToken, pre, kwIdx, raised>>
    /\ UNCHANGED dvconVars

\* arXiv: "if papers is None: raise Exception(...)", otherwise the section is
\* written whatever the list holds
ConsumeArxiv ==
    /\ pc = "fetched"
    /\ UNCHANGED pureVars
    /\ Src = "arxiv"
    /\ IF result.isNone
       THEN /\ raised' = "Exception"
            /\ pc' = "restore"
            /\ UNCHANGED <<fs, srcIdx>>
       ELSE /\ fs' = WriteSection(fs, "arxiv", result.papers)
            /\ srcIdx' = srcIdx + 1
            /\ pc' = "source"
            /\ UNCHANGED raised
    /\ WrapperIdle
    /\ UNCHANGED <<args, acmToken, pre, kwIdx>>
    /\ UNCHANGED dvconVars

---------------------------------------------------------------------------
(* main(): DVCon with --download-dvcon-assets *)

\* "if dvcon_papers: if args.download_dvcon_assets: download_dvcon_assets(...)"
BeginAssets ==
    /\ pc = "fetched"
    /\ UNCHANGED pureVars
    /\ Src = "dvcon"
    /\ args.download
    /\ Truthy(result)
    /\ pc' = "download"
    /\ entIdx' = 1
    /\ entries0' = result.papers
    /\ failed' = {}
    /\ attempt' = 0
    /\ calls' = 0
    /\ sleeps' = 0
    /\ netCalls' = 0
    /\ uniform' = ""
    /\ last' = ""
    /\ fetched' = <<>>
    /\ UNCHANGED <<args, acmToken, fs, pre, downloads, kwIdx, srcIdx, raised, result>>

\* download_dvcon_assets, one entry of "for entry in entries".  page is what
\* the detail page gives ("fail": the request fails, "noasset": no link with
\* an allowed extension, "asset": a link to AssetName(i)); dl is how the
\* download goes ("ok", "refused": raise_for_status raises, "broken": the
\* stream fails after the file was opened for writing).  Gives the entry, the
\* directory and whether a request failed.
DownloadOneLinksRefused(entry, i, dir, page, dl) ==
    LET nm == AssetName(i) IN
    IF entry.Link.kind # "http" \/ page = "noasset"
    THEN [entry |-> entry, dir |-> dir, failure |-> FALSE]
    ELSE IF page = "fail"
    THEN [entry |-> entry, dir |-> dir, failure |-> TRUE]
    ELSE IF dir[nm] # "absent"
    THEN [entry |-> [entry EXCEPT !.Link = LocalLink(nm)], dir |-> dir,
          failure |-> FALSE]
    ELSE IF dl = "ok"
    THEN [entry |-> [entry EXCEPT !.Link = LocalLink(nm)],
          dir |-> [dir EXCEPT ![nm] = "full"], failure |-> FALSE]
    ELSE IF dl = "refused"
    THEN [entry |-> [entry EXCEPT !.Link = LocalLink(nm)], dir |-> dir,
          failure |-> TRUE]
    ELSE [entry |-> entry, dir |-> [dir EXCEPT ![nm] = "corrupt"],
          failure |-> TRUE]

DownloadOne(entry, i, dir, page, dl) ==
    LET nm == AssetName(i) IN
    IF entry.Link.kind # "http" \/ page = "noasset"
    THEN [entry |-> entry, dir |-> dir, failure |-> FALSE]
    ELSE IF page = "fail"
    THEN [entry |-> entry, dir |-> dir, failure |-> TRUE]
    ELSE IF dir[nm] # "absent"
    THEN [entry |-> [entry EXCEPT !.Link = LocalLink(nm)], dir |-> dir,
          failure |-> FALSE]
    ELSE IF dl = "ok"
    THEN [entry |-> [entry EXCEPT !.Link = LocalLink(nm)],
          dir |-> [dir EXCEPT ![nm] = "full"], failure |-> FALSE]
    ELSE IF dl = "refused"
    THEN [entry |-> entry, dir |-> dir, failure |-> TRUE]
    ELSE [entry |-> entry, dir |-> [dir EXCEPT ![nm] = "corrupt"],
          failure |-> TRUE]

DownloadEntry ==
    /\ pc = "download"
    /\ UNCHANGED pureVars
    /\ entIdx <= Len(result.papers)
    /\ \E page \in {"fail", "noasset", "asset"}, dl \in {"ok", "refused", "broken"} :
          LET d == DownloadOne(result.papers[entIdx], entIdx, downloads, page, dl)
          IN /\ result' = [result EXCEPT !.papers[entIdx] = d.entry]
             /\ downloads' = d.dir
             /\ failed' = IF d.failure THEN failed \cup {<<entIdx, "download">>}
                          ELSE failed
    /\ entIdx' = entIdx + 1
    /\ UNCHANGED <<args, acmToken, fs, pre, pc, kwIdx, srcIdx, raised, entries0>>
    /\ UNCHANGED <<attempt, calls, sleeps, netCalls, uniform, last, fetched>>

\* download_dvcon_assets returns; extract_abstracts_from_downloaded_dvcon_pdfs
\* is called on the same list
BeginExtract ==
    /\ pc = "download"
    /\ UNCHANGED pureVars
    /\ entIdx > Len(result.papers)
    /\ pc' = "extract"
    /\ entIdx' = 1
    /\ UNCHANGED <<args, acmToken, fs, pre, downloads, kwIdx, srcIdx, raised,
                   entries0, failed>>
    /\ UNCHANGED wrapperVars

\* the entry after abstract extraction (abs: an "Abstract" section was
\* found) and year inference (yr: "year" when a year was inferred, "none",
\* or "raise" when the inference raised inside its try block)
ExtractOneAnyDate(entry, abs, yr) ==
    LET e1 == IF abs THEN [entry EXCEPT !.Abstract = "extracted"] ELSE entry
    IN IF yr = "year"
       THEN [e1 EXCEPT !.Date = "2022-01-01T00:00:00Z"]
       ELSE e1

ExtractOne(entry, abs, yr) ==
    LET e1 == IF abs THEN [entry EXCEPT !.Abstract = "extracted"] ELSE entry
        placeholder == e1.Date = EpochDate \/ e1.Date = ""
    IN IF yr = "year" /\ placeholder
       THEN [e1 EXCEPT !.Date = "2022-01-01T00:00:00Z"]
       ELSE e1

\* extract_abstracts_from_downloaded_dvcon_pdfs, one entry of
\* "for entry in entries": extract_abstract_from_pdf on the matching PDF is
\* called outside any try block, so PdfReader's error on a corrupt file
\* leaves the function.
ExtractEntry ==
    /\ pc = "extract"
    /\ UNCHANGED pureVars
    /\ PdfFiles(downloads) # {}
    /\ entIdx <= Len(result.papers)
    /\ LET entry == result.papers[entIdx]
           cands == MatchingPdfs(downloads, entry.Link.seg)
       IN IF cands = {}
          THEN /\ entIdx' = entIdx + 1
               /\ UNCHANGED <<result, failed, raised, pc>>
          ELSE \E nm \in cands :
                  IF downloads[nm] = "corrupt"
                  THEN /\ raised' = "PdfReadError"
                       /\ pc' = "restore"
                       /\ failed' = failed \cup {<<entIdx, "pdf">>}
                       /\ UNCHANGED <<result, entIdx>>
                  ELSE \E abs \in BOOLEAN, yr \in {"year", "none", "raise"} :
                          /\ result' = [result EXCEPT
                                 !.papers[entIdx] = ExtractOne(entry, abs, yr)]
                          /\ failed' = failed
                                 \cup (IF abs THEN {} ELSE {<<entIdx, "abstract">>})
                                 \cup (IF yr = "year" THEN {} ELSE {<<entIdx, "year">>})
                          /\ entIdx' = entIdx + 1
                          /\ UNCHANGED <<raised, pc>>
    /\ UNCHANGED <<args, acmToken, fs, pre, downloads, kwIdx, srcIdx, entries0>>
    /\ UNCHANGED <<attempt, calls, sleeps, netCalls, uniform, last, fetched>>

\* the extraction returns (no PDF in the directory, or every entry done) and
\* main() writes the DVCon section
WriteDvcon ==
    /\ pc = "extract"
    /\ UNCHANGED pureVars
    /\ PdfFiles(downloads) = {} \/ entIdx > Len(result.papers)
    /\ fs' = WriteSection(fs, "dvcon", result.papers)
    /\ srcIdx' = srcIdx + 1
    /\ pc' = "source"
    /\ WrapperIdle
    /\ entIdx' = 1
    /\ entries0' = <<>>
    /\ failed' = {}
    /\ UNCHANGED <<args, acmToken, pre, downloads, kwIdx, raised>>

---------------------------------------------------------------------------
(* main(): after the keyword loop, and the except clause *)

\* update_markdown_years_from_pdfs(README.md) inside its own try/except: it
\* patches dates inside table rows or fails and is logged; neither changes
\* which blocks README.md holds
PostProcess ==
    /\ pc = "post"
    /\ UNCHANGED pureVars
    /\ pc' = "archive"
    /\ UNCHANGED <<args, acmToken, fs, pre, kwIdx, srcIdx, raised>>
    /\ UNCHANGED wrapperVars
    /\ UNCHANGED dvconVars

\* shutil.copy2("README.md", data/<current_date>.md)
ArchiveReadme ==
    /\ pc = "archive"
    /\ UNCHANGED pureVars
    /\ fs' = [fs EXCEPT !.archive = fs.readme]
    /\ pc' = "remove"
    /\ UNCHANGED <<args, acmToken, pre, kwIdx, srcIdx, raised>>
    /\ UNCHANGED wrapperVars
    /\ UNCHANGED dvconVars

\* remove_backups(), last statement of the try block
RemoveBackups ==
    /\ pc = "remove"
    /\ UNCHANGED pureVars
    /\ fs' = remove_backups(fs)
    /\ pc' = "done"
    /\ UNCHANGED <<args, acmToken, pre, kwIdx, srcIdx, raised>>
    /\ UNCHANGED wrapperVars
    /\ UNCHANGED dvconVars

\* An except clause that re-raises without restoring the files.
RestoreFilesNotCalled ==
    /\ pc = "restore"
    /\ UNCHANGED pureVars
    /\ pc' = "aborted"
    /\ UNCHANGED <<args, acmToken, fs, pre, kwIdx, srcIdx, raised>>
    /\ UNCHANGED wrapperVars
    /\ UNCHANGED dvconVars

\* "except Exception: restore_files(); raise"
RestoreFiles ==
    /\ pc = "restore"
    /\ UNCHANGED pureVars
    /\ fs' = restore_files(fs)
    /\ pc' = "aborted"
    /\ UNCHANGED <<args, acmToken, pre, kwIdx, srcIdx, raised>>
    /\ UNCHANGED wrapperVars
    /\ UNCHANGED dvconVars

Next ==
    \/ CheckLastUpdate
    \/ BackUpFiles
    \/ WriteHeaders
    \/ NextKeyword
    \/ NextSource
    \/ EndKeyword
    \/ WrapperIteration
    \/ ConsumeExtra
    \/ ConsumeArxiv
    \/ BeginAssets
    \/ DownloadEntry
    \/ BeginExtract
    \/ ExtractEntry
    \/ WriteDvcon
    \/ PostProcess
    \/ ArchiveReadme
    \/ RemoveBackups
    \/ RestoreFiles

Spec == Init /\ [][Next]_vars

---------------------------------------------------------------------------
(* Properties of the retry wrappers *)

\* the running wrapper has returned and main() has not yet used the value
Returned == pc = "fetched"

\* the block an empty table leaves in an output file
EmptySection(src) == <<"section", src, 0>>

HasBlock(file, tok) == \E k \in 1..Len(file.content) : file.content[k] = tok

\* C1: when the arXiv wrapper exhausts its budget the run aborts: no output
\* file ever holds an arXiv section with an empty table, and a run whose
\* arXiv wrapper returned without papers does not go on to completion.
C1_ArxivExhaustionIsFatal ==
    /\ ~HasBlock(fs.readme, EmptySection("arxiv"))
    /\ ~HasBlock(fs.issue, EmptySection("arxiv"))
    /\ (Returned /\ Src = "arxiv" /\ last # "papers") => result.isNone

\* C2: for every source but arXiv, a wrapper whose first attempt failed with
\* an HTTP 4xx made exactly one adapter call, did not sleep, and returned
\* the empty list.
C2_ClientErrorAbandonsRetries ==
    (pc \in {"fetch", "fetched"} /\ Src # "arxiv" /\ uniform = "4xx")
        => /\ Returned
           /\ calls = 1
           /\ sleeps = 0
           /\ result = ListValue(<<>>)

\* C3: for every source but arXiv, a wrapper all of whose attempts failed
\* with a 500-class error returns after exactly 3 adapter calls, and what it
\* returns is the empty list.
C3_ServerErrorUsesFullBudget ==
    (Returned /\ Src # "arxiv" /\ uniform = "5xx")
        => /\ calls = OtherRetries
           /\ result = ListValue(<<>>)

\* C4: every wrapper but arXiv's returns a list on every path, and the empty
\* list when it returns without papers.
C4_ExtraWrapperReturnsList ==
    (Returned /\ Src # "arxiv")
        => /\ ~result.isNone
           /\ last # "papers" => result = ListValue(<<>>)

\* C5: a wrapper makes at most 6 (arXiv) or 3 (other sources) adapter calls;
\* the first attempt that gives papers is the wrapper's last: it returns
\* these papers unchanged, and that iteration does not sleep.
C5_BudgetAndFirstSuccess ==
    pc \in {"fetch", "fetched"}
        => /\ calls <= (IF Src = "arxiv" THEN ArxivRetries ELSE OtherRetries)
           /\ last = "papers"
                => /\ Returned
                   /\ Len(fetched) > 0
                   /\ result = ListValue(fetched)
                   /\ sleeps <= calls - 1

\* C5, witness: the arXiv wrapper returned papers on its third attempt
C5_Witness ==
    /\ Returned
    /\ Src = "arxiv"
    /\ last = "papers"
    /\ calls = 3
    /\ sleeps = 2
    /\ result = ListValue(Papers("arxiv", MaxPapers))

\* C6: without ACM_ACCESS_TOKEN the ACM wrapper issues no request, calls the
\* adapter once and does not sleep.
C6_MissingTokenNotRetried ==
    (pc \in {"fetch", "fetched"} /\ Src = "acm" /\ ~acmToken)
        => /\ netCalls = 0
           /\ calls <= 1
           /\ sleeps = 0

---------------------------------------------------------------------------
(* Properties of the backups *)

\* C7: when main() has left through its except clause, README.md and the
\* issue template are as they were before the run: same content if they
\* existed, absent if they did not.
C7_AbortRestoresPreRunState ==
    pc = "aborted" => fs.readme = pre.readme /\ fs.issue = pre.issue

\* both output files hold their header and every keyword's heading
OutputsWritten ==
    /\ fs.readme.exists
    /\ fs.issue.exists
    /\ fs.readme.content[1] = ReadmeHeader[1]
    /\ fs.issue.content[1] = IssueHeader[1]
    /\ \A k \in 1..Len(args.keywords) :
          /\ HasBlock(fs.readme, <<"keyword", args.keywords[k], 0>>)
          /\ HasBlock(fs.issue, <<"keyword", args.keywords[k], 0>>)

\* C8: a run that completed without exception leaves no .bk file, and once
\* the backup of a file that existed before the run is gone (and the run did
\* not abort), both outputs are written and the archive is a copy of
\* README.md.
C8_BackupsRemovedLast ==
    /\ pc = "done" => ~fs.readmeBk.exists /\ ~fs.issueBk.exists
    /\ (/\ pc \notin {"start", "skipped", "backup", "aborted"}
        /\ \/ pre.readme.exists /\ ~fs.readmeBk.exists
           \/ pre.issue.exists /\ ~fs.issueBk.exists)
        => /\ pc = "done"
           /\ OutputsWritten
           /\ fs.archive = fs.readme

\* C8, witness: a completed run over files that both existed before it
C8_Witness ==
    /\ pc = "done"
    /\ pre.readme.exists
    /\ pre.issue.exists
    /\ fs.archive = fs.readme
    /\ OutputsWritten

---------------------------------------------------------------------------
(* Property of the DVCon asset pipeline *)

\* C9: a failure on one DVCon entry never leaves the batch: no exception of
\* the PDF reader reaches main(), and an entry whose download, abstract
\* extraction or year inference failed keeps its Link, Abstract or Date.
C9_EntryFailureStaysLocal ==
    /\ raised # "PdfReadError"
    /\ pc \in {"download", "extract"}
        => \A f \in failed :
              LET now  == result.papers[f[1]]
                  then == entries0[f[1]]
              IN /\ f[2] = "download" => now.Link = then.Link
                 /\ f[2] = "abstract" => now.Abstract = then.Abstract
                 /\ f[2] = "year" => now.Date = then.Date

---------------------------------------------------------------------------
(* The column selection that ends every get_daily_papers_by_keyword*        *)
(* function, on its own: the papers an adapter normalised (and the filters  *)
(* kept) and a column_names list are drawn from bounded sets.               *)

\* the longest column_names list
MaxCols == 2

\* the keys every adapter gives a normalised paper
PaperKeys == {"Title", "Abstract", "Authors", "Link", "Tags", "Comment", "Date"}

\* the names column_names is drawn from: keys of a paper and others
ColumnPool == {"Title", "Link", "Date", "Venue"}

ColumnLists == UNION {[1..n -> ColumnPool] : n \in 0..MaxCols}

\* the i-th normalised paper of a source: a dict with every key of PaperKeys
NormalisedPaper(src, i) == [k \in PaperKeys |-> k \o "-" \o src \o ToString(i)]

NormalisedPapers(src, n) == [i \in 1..n |-> NormalisedPaper(src, i)]

Range(seq) == {seq[k] : k \in 1..Len(seq)}

\* get_daily_papers_by_keyword (arXiv):
\* [{column_name: paper[column_name] for column_name in column_names}
\*  for paper in papers]
get_daily_papers_by_keyword(papers, column_names) ==
    IF \E i \in 1..Len(papers), k \in 1..Len(column_names) :
          column_names[k] \notin DOMAIN papers[i]
    THEN [state |-> "KeyError", rows |-> <<>>]
    ELSE [state |-> "rows",
          rows |-> [i \in 1..Len(papers) |->
                      [c \in Range(column_names) |-> papers[i][c]]]]

\* get_daily_papers_by_keyword_from_<source>, the six other sources:
\* {column_name: paper.get(column_name, "") for column_name in column_names}
get_daily_papers_by_keyword_from(papers, column_names) ==
    [state |-> "rows",
     rows |-> [i \in 1..Len(papers) |->
                 [c \in Range(column_names) |->
                     IF c \in DOMAIN papers[i] THEN papers[i][c] ELSE ""]]]

\* main() is not running
MainIdle ==
    /\ args = ApplyDefaults([source |-> "all", include |-> {}, download |-> FALSE,
                             force |-> FALSE, profile |-> "general",
                             keywords |-> <<"UVM">>])
    /\ acmToken = TRUE
    /\ fs = [readme |-> Absent, issue |-> Absent, readmeBk |-> Absent,
             issueBk |-> Absent, archive |-> Absent]
    /\ pre = fs
    /\ downloads = [nm \in AssetNames |-> "absent"]
    /\ pc = "idle"
    /\ kwIdx = 1
    /\ srcIdx = 1
    /\ attempt = 0
    /\ calls = 0
    /\ sleeps = 0
    /\ netCalls = 0
    /\ uniform = ""
    /\ last = ""
    /\ fetched = <<>>
    /\ result = ListValue(<<>>)
    /\ entIdx = 1
    /\ entries0 = <<>>
    /\ failed = {}
    /\ raised = ""

InitSelect ==
    /\ MainIdle
    /\ FnIdle
    /\ pjSrc \in Sources
    /\ \E n \in 0..MaxPapers : pjPapers = NormalisedPapers(pjSrc, n)
    /\ pjCols \in ColumnLists
    /\ pjOut = [state |-> "idle", rows |-> <<>>]

\* the column selection of the source's function
SelectColumns ==
    /\ pjOut.state = "idle"
    /\ pjOut' = IF pjSrc = "arxiv"
                THEN get_daily_papers_by_keyword(pjPapers, pjCols)
                ELSE get_daily_papers_by_keyword_from(pjPapers, pjCols)
    /\ UNCHANGED <<pjSrc, pjPapers, pjCols>>
    /\ UNCHANGED fnVars
    /\ UNCHANGED mainVars

NextSelect == SelectColumns

SpecSelect == InitSelect /\ [][NextSelect]_vars

\* C10: for every source, arXiv included, the column selection does not
\* raise, and a column name that is no key of the paper gives "" in every
\* row.
C10_SelectionNeverRaises ==
    pjOut.state # "idle"
        => /\ pjOut.state = "rows"
           /\ \A i \in 1..Len(pjPapers) :
                 \A c \in Range(pjCols) :
                    c \notin PaperKeys => pjOut.rows[i][c] = ""

---------------------------------------------------------------------------
(* Strings.  A Python str is modelled as the sequence of its characters,    *)
(* so that splitting, stripping, case folding and number parsing are        *)
(* computed and not assumed.                                                *)

Digits == <<"0", "1", "2", "3", "4", "5", "6", "7", "8", "9">>

IsDigit(c) == \E k \in 1..10 : Digits[k] = c

DigitValue(c) == (CHOOSE k \in 1..10 : Digits[k] = c) - 1

UpperCase ==
    <<"A", "B", "C", "D", "E", "F", "G", "H", "I", "J", "K", "L", "M",
      "N", "O", "P", "Q", "R", "S", "T", "U", "V", "W", "X", "Y", "Z">>

LowerCase ==
    <<"a", "b", "c", "d", "e", "f", "g", "h", "i", "j", "k", "l", "m",
      "n", "o", "p", "q", "r", "s", "t", "u", "v", "w", "x", "y", "z">>

\* str.lower() on one character
LowerChar(c) ==
    IF \E k \in 1..Len(UpperCase) : UpperCase[k] = c
    THEN LowerCase[CHOOSE k \in 1..Len(UpperCase) : UpperCase[k] = c]
    ELSE c

\* str.lower()
Lower(str) == [k \in 1..Len(str) |-> LowerChar(str[k])]

\* the characters of the model in code-point order
CharOrder ==
    <<" ", "+", "-", ".">> \o Digits \o <<":">> \o UpperCase \o LowerCase

Ord(c) == CHOOSE k \in 1..Len(CharOrder) : CharOrder[k] = c

\* a < b for two str (lexicographic, by code point)
RECURSIVE StrLess(_, _)
StrLess(a, b) ==
    IF b = <<>> THEN FALSE
    ELSE IF a = <<>> THEN TRUE
    ELSE IF a[1] = b[1] THEN StrLess(Tail(a), Tail(b))
    ELSE Ord(a[1]) < Ord(b[1])

\* str.split(sep) for a one-character separator
RECURSIVE SplitAcc(_, _, _)
SplitAcc(str, sep, cur) ==
    IF str = <<>> THEN <<cur>>
    ELSE IF str[1] = sep THEN <<cur>> \o SplitAcc(Tail(str), sep, <<>>)
    ELSE SplitAcc(Tail(str), sep, Append(cur, str[1]))

Split(str, sep) == SplitAcc(str, sep, <<>>)

\* str.split(sep, 1)
SplitOnce(str, sep) ==
    IF \E k \in 1..Len(str) : str[k] = sep
    THEN LET k == CHOOSE i \in 1..Len(str) :
                     str[i] = sep /\ \A j \in 1..(i - 1) : str[j] # sep
         IN <<SubSeq(str, 1, k - 1), SubSeq(str, k + 1, Len(str))>>
    ELSE <<str>>

\* str.rstrip(ch)
RECURSIVE RStrip(_, _)
RStrip(str, ch) ==
    IF str # <<>> /\ str[Len(str)] = ch
    THEN RStrip(SubSeq(str, 1, Len(str) - 1), ch)
    ELSE str

\* sub in str
InStr(sub, str) ==
    \E k \in 0..(Len(str) - Len(sub)) : SubSeq(str, k + 1, k + Len(sub)) = sub

\* str.split(): the maximal runs of non-blank characters
RECURSIVE WordsAcc(_, _)
WordsAcc(str, cur) ==
    IF str = <<>> THEN (IF cur = <<>> THEN <<>> ELSE <<cur>>)
    ELSE IF str[1] = " "
         THEN (IF cur = <<>> THEN <<>> ELSE <<cur>>) \o WordsAcc(Tail(str), <<>>)
         ELSE WordsAcc(Tail(str), Append(cur, str[1]))

Words(str) == WordsAcc(str, <<>>)

\* sep.join(parts)
RECURSIVE Join(_, _)
Join(parts, sep) ==
    IF parts = <<>> THEN <<>>
    ELSE IF Len(parts) = 1 THEN parts[1]
    ELSE parts[1] \o sep \o Join(Tail(parts), sep)

\* remove_duplicated_spaces: " ".join(text.split())
remove_duplicated_spaces(text) == Join(Words(text), <<" ">>)

\* int(str) succeeds: the strings of the model carry no sign, blank or
\* underscore, for which int() is more lenient
IntOk(str) == str # <<>> /\ \A k \in 1..Len(str) : IsDigit(str[k])

\* int(str)
RECURSIVE IntOf(_)
IntOf(str) ==
    IF str = <<>> THEN 0
    ELSE 10 * IntOf(SubSeq(str, 1, Len(str) - 1)) + DigitValue(str[Len(str)])

\* f"{n:0<w>d}"
RECURSIVE Pad(_, _)
Pad(n, w) ==
    IF w <= 1 /\ n < 10 THEN <<Digits[n + 1]>>
    ELSE Pad(n \div 10, w - 1) \o <<Digits[(n % 10) + 1]>>

---------------------------------------------------------------------------
(* Python values and dicts *)

\* a str, None, or a list of str
StrV(str) == [t |-> "str", s |-> str]

NoneV == [t |-> "none", s |-> <<>>]

ListV(items) == [t |-> "list", s |-> items]

\* bool(v)
TruthyV(v) == v.t # "none" /\ v.s # <<>>

\* A dict is the sequence of its items [k, v], in insertion order.
Item(k, v) == [k |-> k, v |-> v]

Keys(dict) == [i \in 1..Len(dict) |-> dict[i].k]

HasKey(dict, k) == \E i \in 1..Len(dict) : dict[i].k = k

\* dict[k], for a key the dict has
Get(dict, k) == dict[CHOOSE i \in 1..Len(dict) : dict[i].k = k].v

\* dict.get(k, default)
GetOr(dict, k, default) == IF HasKey(dict, k) THEN Get(dict, k) ELSE default

---------------------------------------------------------------------------
(* generate_table: the sort key *)

\* a datetime: <<year, month, day, hour, minute, second>>
Epoch == <<1970, 1, 1, 0, 0, 0>>

IsLeap(y) == (y % 4 = 0 /\ y % 100 # 0) \/ y % 400 = 0

DaysIn(y, m) ==
    IF m = 2 THEN (IF IsLeap(y) THEN 29 ELSE 28)
    ELSE IF m \in {4, 6, 9, 11} THEN 30 ELSE 31

\* the digits of a number without its leading zeros
RECURSIVE Significant(_)
Significant(str) ==
    IF Len(str) > 1 /\ str[1] = "0" THEN Significant(Tail(str)) ELSE str

\* the number does not fit a C int (datetime raises OverflowError)
TooBig(str) ==
    LET sig == Significant(str) IN
    \/ Len(sig) > 10
    \/ Len(sig) = 10
       /\ ~StrLess(sig, <<"2", "1", "4", "7", "4", "8", "3", "6", "4", "8">>)

\* the number is beyond every field of a datetime (ValueError)
OutOfRange(str) == Len(Significant(str)) > 4

\* datetime.datetime(...) of the parsed fields: the datetime, ValueError for
\* a field that is no number or out of range, OverflowError for a number
\* that does not fit a C int.  fields: six digit strings.
MakeDatetime(fields) ==
    IF \E k \in 1..6 : ~IntOk(fields[k])
    THEN [state |-> "ValueError", dt |-> Epoch]
    ELSE IF \E k \in 1..6 : TooBig(fields[k])
    THEN [state |-> "OverflowError", dt |-> Epoch]
    ELSE IF \E k \in 1..6 : OutOfRange(fields[k])
    THEN [state |-> "ValueError", dt |-> Epoch]
    ELSE LET n == [k \in 1..6 |-> IntOf(fields[k])] IN
         IF /\ n[1] \in 1..9999
            /\ n[2] \in 1..12
            /\ n[3] \in 1..DaysIn(n[1], n[2])
            /\ n[4] \in 0..23
            /\ n[5] \in 0..59
            /\ n[6] \in 0..59
         THEN [state |-> "value", dt |-> n]
         ELSE [state |-> "ValueError", dt |-> Epoch]

\* generate_table.parse_date, before its except clause
ParseDateRaw(str) ==
    LET clean == RStrip(str, "Z")
        zero  == <<"0">>
    IN IF InStr(<<"T">>, clean)
       THEN LET halves == SplitOnce(clean, "T")
                dp     == Split(halves[1], "-")
                tp     == Split(halves[2], ":")
            IN IF Len(dp) # 3 \/ \E k \in 1..3 : ~IntOk(dp[k])
               THEN [state |-> "ValueError", dt |-> Epoch]
               ELSE IF ~IntOk(tp[1])
               THEN [state |-> "ValueError", dt |-> Epoch]
               ELSE IF Len(tp) < 2
               THEN [state |-> "IndexError", dt |-> Epoch]
               ELSE IF ~IntOk(tp[2])
               THEN [state |-> "ValueError", dt |-> Epoch]
               ELSE LET sec == IF Len(tp) > 2 THEN Split(tp[3], ".")[1] ELSE zero
                    IN MakeDatetime(<<dp[1], dp[2], dp[3], tp[1], tp[2], sec>>)
       ELSE LET dp == Split(clean, "-")
            IN IF Len(dp) # 3
               THEN [state |-> "ValueError", dt |-> Epoch]
               ELSE MakeDatetime(<<dp[1], dp[2], dp[3], zero, zero, zero>>)

\* generate_table.parse_date: epoch for a falsy value and for what its
\* except clause catches (ValueError, AttributeError, IndexError)
parse_date(v) ==
    IF ~TruthyV(v) THEN [state |-> "value", dt |-> Epoch]
    ELSE IF v.t # "str" THEN [state |-> "value", dt |-> Epoch]
    ELSE LET r == ParseDateRaw(v.s) IN
         IF r.state \in {"ValueError", "AttributeError", "IndexError"}
         THEN [state |-> "value", dt |-> Epoch]
         ELSE r

\* "1970-01-01T00:00:00Z", the default of p.get("Date", ...)
EpochString ==
    <<"1", "9", "7", "0", "-", "0", "1", "-", "0", "1", "T",
      "0", "0", ":", "0", "0", ":", "0", "0", "Z">>

\* the key of sorted(): (parse_date(p.get("Date", ...)), p.get("Title", "").lower());
\* the lambda runs outside any try block
SortKey(paper) ==
    LET d     == parse_date(GetOr(paper, "Date", StrV(EpochString)))
        title == GetOr(paper, "Title", StrV(<<>>))
    IN IF d.state # "value"
       THEN [state |-> d.state, dt |-> Epoch, title |-> <<>>]
       ELSE IF title.t # "str"
       THEN [state |-> "AttributeError", dt |-> Epoch, title |-> <<>>]
       ELSE [state |-> "value", dt |-> d.dt, title |-> Lower(title.s)]

\* a < b for two datetimes
RECURSIVE DtLess(_, _)
DtLess(a, b) ==
    IF a = <<>> THEN FALSE
    ELSE IF a[1] = b[1] THEN DtLess(Tail(a), Tail(b))
    ELSE a[1] < b[1]

\* a < b for two sort keys (tuple comparison)
KeyLess(a, b) ==
    \/ DtLess(a.dt, b.dt)
    \/ a.dt = b.dt /\ StrLess(a.title, b.title)

\* sorted(..., reverse=True) is stable: the paper goes before the first
\* paper of smaller key, after those of equal key
InsertDesc(sorted, paper) ==
    LET smaller == {i \in 1..Len(sorted) :
                       KeyLess(SortKey(sorted[i]), SortKey(paper))}
        at == IF smaller = {} THEN Len(sorted) + 1
              ELSE CHOOSE i \in smaller : \A j \in smaller : i <= j
    IN SubSeq(sorted, 1, at - 1) \o <<paper>> \o SubSeq(sorted, at, Len(sorted))

RECURSIVE SortDesc(_)
SortDesc(papers) ==
    IF papers = <<>> THEN <<>>
    ELSE InsertDesc(SortDesc(SubSeq(papers, 1, Len(papers) - 1)),
                    papers[Len(papers)])

---------------------------------------------------------------------------
(* generate_table: one row *)

\* "{0}".format(v)
Fmt(v) ==
    IF v.t = "str" THEN v.s
    ELSE IF v.t = "none" THEN <<"None">>
    ELSE <<"[">> \o Join(v.s, <<", ">>) \o <<"]">>

Cell(k, text) == [k |-> k, text |-> text, isStr |-> TRUE]

Disclosure(summary, text) ==
    <<"<details><summary>">> \o summary \o <<"</summary><p>">> \o text
        \o <<"</p></details>">>

\* the first n items of a sequence (seq[:n])
Prefix(seq, n) == SubSeq(seq, 1, IF Len(seq) < n THEN Len(seq) ELSE n)

\* the branch of "for key in keys" for one key: the cell it adds (none for
\* a skipped key or a key without branch), or the exception it raises
FormatKey(paper, key, ignore_keys) ==
    IF key \in {"Title", "Link", "Date"} \/ key \in ignore_keys
    THEN [state |-> "skip", cell |-> Cell(key, <<>>)]
    ELSE IF key \notin {"Abstract", "Authors", "Tags", "Comment"}
    THEN [state |-> "skip", cell |-> Cell(key, <<>>)]
    ELSE IF ~HasKey(paper, key)
    THEN [state |-> "KeyError", cell |-> Cell(key, <<>>)]
    ELSE LET v == Get(paper, key) IN
    IF key = "Abstract"
    THEN [state |-> "cell", cell |-> Cell(key, Disclosure(<<"Show">>, Fmt(v)))]
    ELSE IF key = "Authors"
    THEN IF v.t = "none" THEN [state |-> "TypeError", cell |-> Cell(key, <<>>)]
         ELSE IF v.s = <<>> THEN [state |-> "IndexError", cell |-> Cell(key, <<>>)]
         ELSE [state |-> "cell",
               cell |-> Cell(key, (IF v.t = "str" THEN <<v.s[1]>> ELSE v.s[1])
                                      \o <<" et al.">>)]
    ELSE IF key = "Tags"
    THEN IF v.t = "none" THEN [state |-> "TypeError", cell |-> Cell(key, <<>>)]
         ELSE LET tags == IF v.t = "str"
                          THEN Join([i \in 1..Len(v.s) |-> <<v.s[i]>>], <<",", " ">>)
                          ELSE Join(v.s, <<",", " ">>)
              IN [state |-> "cell",
                  cell |-> Cell(key, IF Len(tags) > 10
                                     THEN Disclosure(Prefix(tags, 5) \o <<"...">>, tags)
                                     ELSE tags)]
    ELSE \* Comment
         IF v.t = "str" /\ v.s = <<>>
         THEN [state |-> "cell", cell |-> Cell(key, <<>>)]
         ELSE IF v.t = "none"
         THEN [state |-> "TypeError", cell |-> Cell(key, <<>>)]
         ELSE IF Len(v.s) > 20
         THEN [state |-> "cell",
               cell |-> Cell(key, Disclosure(Fmt([v EXCEPT !.s = Prefix(v.s, 5)])
                                                 \o <<"...">>, Fmt(v)))]
         ELSE [state |-> "cell",
               cell |-> [k |-> key, text |-> Fmt(v), isStr |-> v.t = "str"]]

\* the cells the branches added to paper_key_value, in the order of the keys
RECURSIVE AddedCells(_)
AddedCells(done) ==
    IF done = <<>> THEN <<>>
    ELSE (IF done[1].state = "cell" THEN <<done[1].cell>> ELSE <<>>)
         \o AddedCells(Tail(done))

\* the try block of "for paper in sorted_papers": the row's cells in the
\* order they are set, or ok = FALSE when a statement raises
FormatPaper(paper, keys, ignore_keys) ==
    IF ~HasKey(paper, "Title") \/ ~HasKey(paper, "Link") \/ ~HasKey(paper, "Date")
    THEN [ok |-> FALSE, cells |-> <<>>]
    ELSE IF Get(paper, "Date").t # "str"
    THEN [ok |-> FALSE, cells |-> <<>>]
    ELSE LET fixed == <<Cell("Title", <<"**[">> \o Fmt(Get(paper, "Title")) \o <<"](">>
                                          \o Fmt(Get(paper, "Link")) \o <<")**">>),
                        Cell("Date", Split(Get(paper, "Date").s, "T")[1])>>
             done  == [i \in 1..Len(keys) |-> FormatKey(paper, keys[i], ignore_keys)]
         IN IF \E i \in 1..Len(keys) : done[i].state \notin {"cell", "skip"}
            THEN [ok |-> FALSE, cells |-> <<>>]
            ELSE [ok |-> TRUE, cells |-> fixed \o AddedCells(done)]

---------------------------------------------------------------------------
(* generate_table *)

\* what generate_table returns: "" is the table without header and rows.
\* A row keeps the paper it was made from.
Table(header, rows) == [state |-> "value", header |-> header, rows |-> rows]

Raised(exc) == [state |-> exc, header |-> <<>>, rows |-> <<>>]

RECURSIVE FormatAll(_, _, _)
FormatAll(papers, keys, ignore_keys) ==
    IF papers = <<>> THEN <<>>
    ELSE LET f == FormatPaper(papers[1], keys, ignore_keys)
             rest == FormatAll(Tail(papers), keys, ignore_keys)
         IN IF f.ok THEN <<[paper |-> papers[1], cells |-> f.cells]>> \o rest
            ELSE rest

\* the value of an expression, computed once: the element of the
\* one-element set that holds it
The(S) == CHOOSE x \in S : TRUE

\* formatted_papers: the rows of the papers whose formatting did not raise;
\* the columns are the keys of the first sorted paper
Rows(sorted_papers, ignore_keys) ==
    FormatAll(sorted_papers, Keys(sorted_papers[1]), ignore_keys)

\* the header and the body joined from formatted_papers; str.join raises
\* TypeError for a cell that is no str
Rendered(formatted_papers) ==
    IF formatted_papers = <<>> THEN Table(<<>>, <<>>)
    ELSE IF \E i \in 1..Len(formatted_papers) :
               \E c \in 1..Len(formatted_papers[i].cells) :
                  ~formatted_papers[i].cells[c].isStr
    THEN Raised("TypeError")
    ELSE Table([c \in 1..Len(formatted_papers[1].cells) |->
                   formatted_papers[1].cells[c].k],
               formatted_papers)

generate_table(papers, ignore_keys) ==
    IF papers = <<>> THEN Table(<<>>, <<>>)
    ELSE IF \E i \in 1..Len(papers) : SortKey(papers[i]).state # "value"
    THEN Raised(SortKey(papers[CHOOSE i \in 1..Len(papers) :
                    /\ SortKey(papers[i]).state # "value"
                    /\ \A j \in 1..(i - 1) : SortKey(papers[j]).state = "value"]).state)
    ELSE The({Rendered(formatted_papers) :
                formatted_papers \in
                    {The({Rows(sorted_papers, ignore_keys) :
                            sorted_papers \in {SortDesc(papers)}})}})

---------------------------------------------------------------------------
(* generate_table called on its own *)

\* the longest list of papers
MaxRows == 2

\* "YYYY-MM-DDT00:00:00Z" of a year and a day of January
JanuaryDate(year, day) ==
    Pad(year, 4) \o <<"-", "0", "1", "-">> \o Pad(day, 2)
        \o <<"T", "0", "0", ":", "0", "0", ":", "0", "0", "Z">>

\* a paper as main() passes it: projected to column_names, in that order
ProjectedPaper(title, date, comment) ==
    <<Item("Title", title), Item("Link", StrV(<<"l">>)),
      Item("Abstract", StrV(<<"s">>)), Item("Date", date),
      Item("Comment", comment)>>

LongComment == [i \in 1..21 |-> "c"]

\* papers whose fields are all str
StringPapers ==
    {ProjectedPaper(StrV(<<"A", "b">>), StrV(JanuaryDate(2024, 5)), StrV(<<>>)),
     ProjectedPaper(StrV(<<"a", "B">>), StrV(JanuaryDate(2024, 5)), StrV(<<"v">>)),
     ProjectedPaper(StrV(<<"b">>), StrV(JanuaryDate(2023, 31)), StrV(LongComment)),
     ProjectedPaper(StrV(<<"c">>), StrV(<<"T", "u", "e">>), StrV(<<>>)),
     ProjectedPaper(StrV(<<"d">>), StrV(<<>>), StrV(<<>>)),
     ProjectedPaper(StrV(<<"e">>),
                    StrV(<<"9", "9", "9", "9", "9", "9", "9", "9", "9", "9", "9",
                           "-", "0", "1", "-", "0", "1">>),
                    StrV(<<>>))}

\* malformed papers: a field of another type, a missing key
MalformedPapers ==
    {ProjectedPaper(NoneV, StrV(JanuaryDate(2024, 6)), StrV(<<>>)),
     ProjectedPaper(StrV(<<"f">>), StrV(JanuaryDate(2024, 7)), NoneV),
     <<Item("Title", StrV(<<"g">>)), Item("Link", StrV(<<"l">>)),
       Item("Date", StrV(JanuaryDate(2025, 1)))>>,
     <<Item("Title", StrV(<<"h">>)), Item("Link", StrV(<<"l">>)),
       Item("Abstract", StrV(<<"s">>)), Item("Comment", StrV(<<>>))>>}

TablePapers == StringPapers \cup MalformedPapers

PaperLists == UNION {[1..n -> TablePapers] : n \in 0..MaxRows}

\* ignore_keys as main() passes it: none, or ["Abstract"]
IgnoreKeys == {{}, {"Abstract"}}

InitTable ==
    /\ MainIdle
    /\ pjSrc = "arxiv"
    /\ pjPapers = <<>>
    /\ pjCols = <<>>
    /\ pjOut = [state |-> "idle", rows |-> <<>>]
    /\ fn = "generate_table"
    /\ fnArg \in {[papers |-> ps, ignore_keys |-> ik] :
                     ps \in PaperLists, ik \in IgnoreKeys}
    /\ fnOut = [state |-> "idle"]

CallGenerateTable ==
    /\ fn = "generate_table"
    /\ fnOut.state = "idle"
    /\ fnOut' = generate_table(fnArg.papers, fnArg.ignore_keys)
    /\ UNCHANGED <<fn, fnArg, pjSrc, pjPapers, pjCols, pjOut>>
    /\ UNCHANGED mainVars

NextTable == CallGenerateTable

SpecTable == InitTable /\ [][NextTable]_vars

---------------------------------------------------------------------------
(* Properties of generate_table *)

\* generate_table has been called and has returned or raised
TableCalled == fn = "generate_table" /\ fnOut.state # "idle"

\* the dates of the model that are no date: not of the form
\* YYYY-MM-DD[THH:MM[:SS]][Z], or with a year beyond any calendar
NoDate ==
    {<<>>, <<"T", "u", "e">>,
     <<"9", "9", "9", "9", "9", "9", "9", "9", "9", "9", "9",
       "-", "0", "1", "-", "0", "1">>}

\* the date a paper is to be ordered by: 1970-01-01 when its Date is
\* missing or no date
OrderDate(paper) ==
    IF ~HasKey(paper, "Date") THEN Epoch
    ELSE IF Get(paper, "Date").s \in NoDate THEN Epoch
    ELSE parse_date(Get(paper, "Date")).dt

OrderKey(paper) == [dt |-> OrderDate(paper), title |-> Lower(Get(paper, "Title").s)]

\* C12: for papers whose fields are strings, generate_table returns a table
\* whose rows are in descending order of Date, a missing or unparseable
\* Date counting as 1970-01-01, and rows of equal Date in descending order
\* of the lower-cased Title.
C12_RowsNewestFirst ==
    (TableCalled /\ \A i \in 1..Len(fnArg.papers) : fnArg.papers[i] \in StringPapers)
        => /\ fnOut.state = "value"
           /\ \A i \in 1..(Len(fnOut.rows) - 1) :
                 ~KeyLess(OrderKey(fnOut.rows[i].paper),
                          OrderKey(fnOut.rows[i + 1].paper))

\* the papers of the model that are not malformed: every field a string,
\* and a Date the sort key can be computed from
SoundPapers == {p \in StringPapers : parse_date(Get(p, "Date")).state = "value"}

\* C13: generate_table never raises, whatever malformed paper the list
\* holds, and every paper that is not malformed has its row in the table.
C13_MalformedPaperDropped ==
    TableCalled
        => /\ fnOut.state = "value"
           /\ \A i \in 1..Len(fnArg.papers) :
                 fnArg.papers[i] \in SoundPapers
                    => \E r \in 1..Len(fnOut.rows) :
                          fnOut.rows[r].paper = fnArg.papers[i]

\* the cell of column k in a row, <<>> when the row has none
CellsOf(row, k) == {c \in 1..Len(row.cells) : row.cells[c].k = k}

\* C14: in a table made without ignore_keys every row shows its paper's
\* Abstract inside the Show disclosure; in a table made with "Abstract" in
\* ignore_keys neither the header nor any row has an Abstract column.
C14_AbstractShownOrOmitted ==
    (TableCalled /\ fnOut.state = "value")
        => \A r \in 1..Len(fnOut.rows) :
              LET row == fnOut.rows[r] IN
              IF "Abstract" \in fnArg.ignore_keys
              THEN /\ CellsOf(row, "Abstract") = {}
                   /\ \A h \in 1..Len(fnOut.header) : fnOut.header[h] # "Abstract"
              ELSE HasKey(row.paper, "Abstract")
                      => \E c \in CellsOf(row, "Abstract") :
                            row.cells[c].text =
                                Disclosure(<<"Show">>, Fmt(Get(row.paper, "Abstract")))

---------------------------------------------------------------------------
(* Normalisation of one provider record to a Paper.  Of a record the model  *)
(* keeps what Title, Authors and Date are computed from: title (a str, or   *)
(* None when absent), names (the authors' names, or None when the record    *)
(* has no author list), date (the provider's date string, or None), year    *)
(* (a number as digits, or None) and parts (CrossRef's date-parts[0]).      *)

Untitled == <<"U", "n", "t", "i", "t", "l", "e", "d">>

Unknown == <<"U", "n", "k", "n", "o", "w", "n">>

MidnightSuffix == <<"T", "0", "0", ":", "0", "0", ":", "0", "0", "Z">>

\* the Title, Authors and Date of a normalised paper
NormalPaper(title, authors, date) ==
    [state |-> "paper", Title |-> title, Authors |-> authors, Date |-> date]

\* the record raised inside the adapter's try block and is skipped
Dropped == [state |-> "dropped", Title |-> <<>>, Authors |-> <<>>, Date |-> <<>>]

\* the names that are not empty ("if name: authors.append(name)")
RECURSIVE NonEmptyNames(_)
NonEmptyNames(names) ==
    IF names = <<>> THEN <<>>
    ELSE (IF names[1] = <<>> THEN <<>> ELSE <<names[1]>>) \o NonEmptyNames(Tail(names))

\* authors or ["Unknown"], over "item.get(...) or []"
AuthorsOrUnknown(names) ==
    LET authors == IF names.t = "none" THEN <<>> ELSE NonEmptyNames(names.s)
    IN IF authors = <<>> THEN <<Unknown>> ELSE authors

\* item.get("title") or "Untitled", then remove_duplicated_spaces
TitleOrUntitled(title) ==
    remove_duplicated_spaces(IF TruthyV(title) THEN title.s ELSE Untitled)

\* re.match(r"\d{4}-\d{2}-\d{2}", str): a prefix match
MatchesDatePrefix(str) ==
    /\ Len(str) >= 10
    /\ \A k \in {1, 2, 3, 4, 6, 7, 9, 10} : IsDigit(str[k])
    /\ str[5] = "-"
    /\ str[8] = "-"

\* f"{int(year):04d}-01-01T00:00:00Z"
YearDate(year) == Pad(IntOf(year), 4) \o <<"-", "0", "1", "-", "0", "1">> \o MidnightSuffix

\* the Date of request_papers_with_acm_api and request_papers_with_ieee_keyword
PubDate(date, year) ==
    IF TruthyV(date)
    THEN IF InStr(<<"T">>, date.s) THEN date.s
         ELSE IF MatchesDatePrefix(date.s) THEN date.s \o MidnightSuffix
         ELSE IF TruthyV(year) THEN YearDate(year.s)
         ELSE EpochString
    ELSE IF TruthyV(year) THEN YearDate(year.s)
    ELSE EpochString

\* request_paper_with_arxiv_api: a missing attribute raises and the entry is
\* skipped; no fallback for Title or Authors, Date is entry.updated as is
NormaliseArxiv(rec) ==
    IF rec.title.t = "none" \/ rec.names.t = "none" \/ rec.date.t = "none"
    THEN Dropped
    ELSE NormalPaper(remove_duplicated_spaces(rec.title.s),
                     [i \in 1..Len(rec.names.s) |->
                         remove_duplicated_spaces(rec.names.s[i])],
                     rec.date.s)

\* request_papers_with_crossref: title is the first of the record's title
\* list; the date is formatted from date-parts
NormaliseCrossref(rec) ==
    LET title == IF rec.title.t = "none" THEN Untitled ELSE rec.title.s
        parts == rec.parts
        date  == IF parts = <<>> THEN EpochString
                 ELSE Pad(parts[1], 4) \o <<"-">>
                      \o Pad(IF Len(parts) > 1 THEN parts[2] ELSE 1, 2) \o <<"-">>
                      \o Pad(IF Len(parts) > 2 THEN parts[3] ELSE 1, 2)
                      \o MidnightSuffix
    IN NormalPaper(remove_duplicated_spaces(title), AuthorsOrUnknown(rec.names), date)

\* request_papers_with_openalex
NormaliseOpenalex(rec) ==
    LET d == IF TruthyV(rec.date) THEN rec.date.s
             ELSE <<"1", "9", "7", "0", "-", "0", "1", "-", "0", "1">>
    IN NormalPaper(TitleOrUntitled(rec.title), AuthorsOrUnknown(rec.names),
                   IF InStr(<<"T">>, d) THEN d ELSE d \o MidnightSuffix)

\* request_papers_with_semantic_scholar
NormaliseSemanticScholar(rec) ==
    NormalPaper(TitleOrUntitled(rec.title), AuthorsOrUnknown(rec.names),
                IF TruthyV(rec.year) THEN YearDate(rec.year.s) ELSE EpochString)

\* request_papers_with_acm_api, request_papers_with_ieee_keyword
NormalisePubDate(rec) ==
    NormalPaper(TitleOrUntitled(rec.title), AuthorsOrUnknown(rec.names),
                PubDate(rec.date, rec.year))

\* get_daily_papers_by_keyword_from_dvcon: an anchor without text is
\* skipped; the year is the one found in the title or URL
NormaliseDvcon(rec) ==
    IF rec.title.t = "none" \/ Words(rec.title.s) = <<>>
    THEN Dropped
    ELSE NormalPaper(remove_duplicated_spaces(rec.title.s), <<Unknown>>,
                     IF TruthyV(rec.year) THEN YearDate(rec.year.s) ELSE EpochString)

Normalise(src, rec) ==
    CASE src = "arxiv"           -> NormaliseArxiv(rec)
      [] src = "crossref"        -> NormaliseCrossref(rec)
      [] src = "openalex"        -> NormaliseOpenalex(rec)
      [] src = "semanticscholar" -> NormaliseSemanticScholar(rec)
      [] src = "dvcon"           -> NormaliseDvcon(rec)
      [] OTHER                   -> NormalisePubDate(rec)

\* the titles a provider can send: none, empty, blank, or some words
RecordTitles ==
    {NoneV, StrV(<<>>), StrV(<<" ">>), StrV(<<"U", "V", "M", " ", " ", "t">>)}

\* the author lists a provider can send: none, empty, an author without a
\* name, or one named author
RecordNames ==
    {NoneV, ListV(<<>>), ListV(<< <<>> >>), ListV(<< <<"A", " ", "B">> >>)}

\* the date strings a provider can send
RecordDates ==
    {NoneV,
     StrV(<<"2", "0", "2", "4", "-", "0", "1", "-", "0", "5">>),
     StrV(<<"2", "0", "2", "4", "-", "0", "1", "-", "0", "5", "T",
            "1", "0", ":", "0", "0", ":", "0", "0", "Z">>),
     StrV(<<"T", "u", "e", " ", "0", "5", " ", "J", "a", "n">>),
     StrV(<<"0", "5", " ", "M", "a", "y", " ", "2", "0", "2", "3">>),
     StrV(<<"2", "0", "2", "4">>)}

RecordYears == {NoneV, StrV(<<"2", "0", "2", "4">>)}

RecordParts == {<<>>, <<2024>>, <<2024, 1, 5>>}

Records ==
    [title : RecordTitles, names : RecordNames, date : RecordDates,
     year : RecordYears, parts : RecordParts]

InitNormalise ==
    /\ MainIdle
    /\ pjSrc = "arxiv"
    /\ pjPapers = <<>>
    /\ pjCols = <<>>
    /\ pjOut = [state |-> "idle", rows |-> <<>>]
    /\ fn = "normalise"
    /\ fnArg \in {[src |-> src, rec |-> rec] : src \in Sources, rec \in Records}
    /\ fnOut = [state |-> "idle"]

CallNormalise ==
    /\ fn = "normalise"
    /\ fnOut.state = "idle"
    /\ fnOut' = Normalise(fnArg.src, fnArg.rec)
    /\ UNCHANGED <<fn, fnArg, pjSrc, pjPapers, pjCols, pjOut>>
    /\ UNCHANGED mainVars

NextNormalise == CallNormalise

SpecNormalise == InitNormalise /\ [][NextNormalise]_vars

\* YYYY-MM-DDT..., and the sort routine of generate_table parses it
WellFormedDate(date) ==
    /\ MatchesDatePrefix(date)
    /\ Len(date) > 10
    /\ date[11] = "T"
    /\ ParseDateRaw(date).state = "value"

\* C11: every Paper an adapter returns has a non-empty Title, a non-empty
\* Authors sequence and a Date of the form YYYY-MM-DDT00:00:00Z, or a fuller
\* ISO timestamp, that the sort routine of generate_table parses to a date.
C11_NormalisedFields ==
    (fn = "normalise" /\ fnOut.state = "paper") =>
        /\ fnOut.Title # <<>>
        /\ fnOut.Authors # <<>>
        /\ WellFormedDate(fnOut.Date)

---------------------------------------------------------------------------
(* The topic filters: filter_tags for arXiv, and the verification-domain    *)
(* filter of the CrossRef, OpenAlex, Semantic Scholar and ACM adapters.     *)

\* the tokens of _is_verification_flavoured_query
QueryTokens ==
    <<<<"v", "e", "r", "i", "f", "i", "c", "a", "t", "i", "o", "n">>,
      <<"u", "v", "m">>,
      <<"u", "v", "m", "-">>,
      <<"d", "v", "c", "o", "n">>>>

\* verification_markers
VerificationMarkers ==
    <<<<"v", "e", "r", "i", "f", "i", "c", "a", "t", "i", "o", "n">>,
      <<"u", "v", "m">>,
      <<"s", "y", "s", "t", "e", "m", "v", "e", "r", "i", "l", "o", "g">>,
      <<"r", "t", "l">>,
      <<"t", "e", "s", "t", "b", "e", "n", "c", "h">>,
      <<"f", "o", "r", "m", "a", "l">>,
      <<"a", "s", "s", "e", "r", "t", "i", "o", "n">>,
      <<"c", "o", "v", "e", "r", "a", "g", "e">>,
      <<"d", "v", "c", "o", "n">>,
      <<"s", "o", "c">>,
      <<"f", "p", "g", "a">>,
      <<"a", "s", "i", "c">>,
      <<"h", "d", "l">>>>

\* any(token in keyword.lower() for token in [...])
_is_verification_flavoured_query(keyword) ==
    \E k \in 1..Len(QueryTokens) : InStr(QueryTokens[k], Lower(keyword))

\* paper.get(key, ""), for a field holding a str
FieldText(paper, key) == GetOr(paper, key, StrV(<<>>)).s

\* " ".join([Title, Abstract, Comment]).lower(), False when it is blank,
\* else any(marker in haystack for marker in verification_markers)
_is_digital_verification_paper(paper) ==
    LET haystack == Lower(Join(<<FieldText(paper, "Title"),
                                 FieldText(paper, "Abstract"),
                                 FieldText(paper, "Comment")>>, <<" ">>))
    IN IF Words(haystack) = <<>> THEN FALSE
       ELSE \E k \in 1..Len(VerificationMarkers) :
               InStr(VerificationMarkers[k], haystack)

\* target_fileds, the default of filter_tags
TargetFields == {<<"c", "s">>, <<"s", "t", "a", "t">>}

\* the wrong test: the first or the last component is in target_fileds
TagMatchesFirstAndLast(tag) ==
    LET components == Split(tag, ".")
    IN components[1] \in TargetFields \/ components[Len(components)] \in TargetFields

\* tag.split(".")[0] in target_fileds
TagMatches(tag) == Split(tag, ".")[1] \in TargetFields

\* the inner loop of filter_tags: the paper is appended at its first
\* matching tag and the loop over its tags ends
KeptByTags(paper) ==
    LET tags == GetOr(paper, "Tags", ListV(<<>>)).s
    IN \E k \in 1..Len(tags) : TagMatches(tags[k])

RECURSIVE filter_tags(_)
filter_tags(papers) ==
    IF papers = <<>> THEN <<>>
    ELSE (IF KeptByTags(papers[1]) THEN <<papers[1]>> ELSE <<>>)
         \o filter_tags(Tail(papers))

\* [paper for paper in papers if _is_digital_verification_paper(paper)],
\* in reverse
RECURSIVE VerificationFilterReversed(_)
VerificationFilterReversed(papers) ==
    IF papers = <<>> THEN <<>>
    ELSE VerificationFilterReversed(Tail(papers))
         \o (IF _is_digital_verification_paper(papers[1]) THEN <<papers[1]>> ELSE <<>>)

\* [paper for paper in papers if _is_digital_verification_paper(paper)]
RECURSIVE VerificationFilter(_)
VerificationFilter(papers) ==
    IF papers = <<>> THEN <<>>
    ELSE (IF _is_digital_verification_paper(papers[1]) THEN <<papers[1]>> ELSE <<>>)
         \o VerificationFilter(Tail(papers))

\* the wrong set: IEEE filtered as well
HasVerificationFilterWithIeee(src) ==
    src \in {"crossref", "openalex", "semanticscholar", "acm", "ieee"}

\* the get_daily_papers_by_keyword_from_* functions that call
\* _is_verification_flavoured_query
HasVerificationFilter(src) ==
    src \in {"crossref", "openalex", "semanticscholar", "acm"}

\* what get_daily_papers_by_keyword* does to the normalised papers before
\* it selects the columns
TopicFilter(src, keyword, papers) ==
    IF src = "arxiv" THEN filter_tags(papers)
    ELSE IF HasVerificationFilter(src) /\ _is_verification_flavoured_query(keyword)
    THEN VerificationFilter(papers)
    ELSE papers

\* the longest list of papers handed to a filter
MaxFiltered == 2

\* the keywords handed to an adapter: three that _is_verification_flavoured_query
\* accepts, in different cases, and two it does not
FilterKeywords ==
    {<<"U", "V", "M">>,
     <<"f", "o", "r", "m", "a", "l", " ", "V", "e", "r", "i", "f", "i", "c", "a", "t", "i", "o", "n">>,
     <<"d", "v", "c", "o", "n">>,
     <<"R", "I", "S", "C", "-", "V">>,
     <<"S", "o", "C">>}

\* normalised papers that differ in the text of Title, Abstract and Comment:
\* a marker in the title in upper case, letters of a marker on both sides of
\* a field boundary, a marker in the comment, no text, no marker, no Comment
TextPapers ==
    {<<Item("Title", StrV(<<"U", "V", "M", " ", "x">>)),
       Item("Abstract", StrV(<<>>)),
       Item("Comment", StrV(<<>>)),
       Item("Tags", ListV(<<<<"c", "s", ".", "A", "R">>>>))>>,
     <<Item("Title", StrV(<<"a", " ", "s", "o">>)),
       Item("Abstract", StrV(<<"c", " ", "b">>)),
       Item("Comment", StrV(<<>>)),
       Item("Tags", ListV(<<<<"c", "s", ".", "A", "R">>>>))>>,
     <<Item("Title", StrV(<<"x">>)),
       Item("Abstract", StrV(<<"y">>)),
       Item("Comment", StrV(<<"F", "p", "g", "a">>)),
       Item("Tags", ListV(<<<<"c", "s", ".", "A", "R">>>>))>>,
     <<Item("Title", StrV(<<>>)),
       Item("Abstract", StrV(<<>>)),
       Item("Comment", StrV(<<>>)),
       Item("Tags", ListV(<<<<"c", "s", ".", "A", "R">>>>))>>,
     <<Item("Title", StrV(<<"x">>)),
       Item("Abstract", StrV(<<"y">>)),
       Item("Comment", StrV(<<>>)),
       Item("Tags", ListV(<<<<"c", "s", ".", "A", "R">>>>))>>,
     <<Item("Title", StrV(<<"x">>)),
       Item("Abstract", StrV(<<"h", "d", "l">>)),
       Item("Tags", ListV(<<<<"c", "s", ".", "A", "R">>>>))>>}

\* normalised papers that differ in Tags: no Tags key, no tag, a matching
\* second tag, no matching tag, a tag without '.', a matching last
\* component, two matching tags, a first component that starts with "cs"
TagPapers ==
    {<<Item("Title", StrV(<<"x">>)),
       Item("Abstract", StrV(<<"y">>)),
       Item("Comment", StrV(<<>>))>>,
     <<Item("Title", StrV(<<"x">>)),
       Item("Abstract", StrV(<<"y">>)),
       Item("Comment", StrV(<<>>)),
       Item("Tags", ListV(<<>>))>>,
     <<Item("Title", StrV(<<"x">>)),
       Item("Abstract", StrV(<<"y">>)),
       Item("Comment", StrV(<<>>)),
       Item("Tags", ListV(<<<<"m", "a", "t", "h", ".", "O", "C">>, <<"s", "t", "a", "t", ".", "M", "L">>>>))>>,
     <<Item("Title", StrV(<<"x">>)),
       Item("Abstract", StrV(<<"y">>)),
       Item("Comment", StrV(<<>>)),
       Item("Tags", ListV(<<<<"e", "e", "s", "s", ".", "S", "Y">>>>))>>,
     <<Item("Title", StrV(<<"x">>)),
       Item("Abstract", StrV(<<"y">>)),
       Item("Comment", StrV(<<>>)),
       Item("Tags", ListV(<<<<"c", "s">>>>))>>,
     <<Item("Title", StrV(<<"x">>)),
       Item("Abstract", StrV(<<"y">>)),
       Item("Comment", StrV(<<>>)),
       Item("Tags", ListV(<<<<"p", "h", "y", "s", "i", "c", "s", ".", "c", "s">>>>))>>,
     <<Item("Title", StrV(<<"x">>)),
       Item("Abstract", StrV(<<"y">>)),
       Item("Comment", StrV(<<>>)),
       Item("Tags", ListV(<<<<"c", "s", ".", "A", "R">>, <<"s", "t", "a", "t", ".", "M", "L">>>>))>>,
     <<Item("Title", StrV(<<"x">>)),
       Item("Abstract", StrV(<<"y">>)),
       Item("Comment", StrV(<<>>)),
       Item("Tags", ListV(<<<<"c", "s", "x", ".", "A", "R">>>>))>>}

FilterPapers == TextPapers \cup TagPapers

FilterLists == UNION {[1..n -> FilterPapers] : n \in 0..MaxFiltered}

InitFilter ==
    /\ MainIdle
    /\ pjSrc = "arxiv"
    /\ pjPapers = <<>>
    /\ pjCols = <<>>
    /\ pjOut = [state |-> "idle", rows |-> <<>>]
    /\ fn = "filter"
    /\ fnArg \in {[src |-> src, keyword |-> kw, papers |-> ps] :
                     src \in Sources, kw \in FilterKeywords, ps \in FilterLists}
    /\ fnOut = [state |-> "idle", kept |-> <<>>, twice |-> <<>>]

\* the filter of the source is applied to the papers, and once more to
\* what it kept
ApplyFilter ==
    /\ fn = "filter"
    /\ fnOut.state = "idle"
    /\ LET kept == TopicFilter(fnArg.src, fnArg.keyword, fnArg.papers)
       IN fnOut' = [state |-> "filtered", kept |-> kept,
                    twice |-> TopicFilter(fnArg.src, fnArg.keyword, kept)]
    /\ UNCHANGED <<fn, fnArg, pjSrc, pjPapers, pjCols, pjOut>>
    /\ UNCHANGED mainVars

NextFilter == ApplyFilter

SpecFilter == InitFilter /\ [][NextFilter]_vars

---------------------------------------------------------------------------
(* Properties of the topic filters *)

Filtered == fn = "filter" /\ fnOut.state = "filtered"

\* the keyword contains "verification", "uvm" or "dvcon", in any case
Flavoured(keyword) ==
    \E token \in {<<"v", "e", "r", "i", "f", "i", "c", "a", "t", "i", "o", "n">>,
                  <<"u", "v", "m">>,
                  <<"d", "v", "c", "o", "n">>} :
        InStr(token, Lower(keyword))

\* one of Title, Abstract, Comment contains a marker, in any case
MentionsMarker(paper) ==
    \E key \in {"Title", "Abstract", "Comment"}, k \in 1..Len(VerificationMarkers) :
        /\ HasKey(paper, key)
        /\ InStr(VerificationMarkers[k], Lower(Get(paper, key).s))

\* the part of a tag before its first '.'
FirstComponent(tag) ==
    LET dots == {k \in 1..Len(tag) : tag[k] = "."}
    IN IF dots = {} THEN tag
       ELSE SubSeq(tag, 1, (CHOOSE k \in dots : \A j \in dots : k <= j) - 1)

HasTargetTag(paper) ==
    /\ HasKey(paper, "Tags")
    /\ \E k \in 1..Len(Get(paper, "Tags").s) :
          FirstComponent(Get(paper, "Tags").s[k]) \in {<<"c", "s">>, <<"s", "t", "a", "t">>}

\* C15: the verification-domain filter acts on CrossRef, OpenAlex, Semantic
\* Scholar and ACM results only, and only for a keyword containing
\* "verification", "uvm" or "dvcon" in any case; then exactly the papers
\* whose Title, Abstract or Comment contains a marker are kept, in order.
\* Otherwise every paper is kept; for arXiv no paper with a cs or stat tag
\* is dropped, whatever its text.
C15_VerificationFilterScope ==
    Filtered =>
        IF fnArg.src \in {"crossref", "openalex", "semanticscholar", "acm"}
        THEN IF Flavoured(fnArg.keyword)
             THEN fnOut.kept = SelectSeq(fnArg.papers, MentionsMarker)
             ELSE fnOut.kept = fnArg.papers
        ELSE IF fnArg.src = "arxiv"
        THEN \A i \in 1..Len(fnArg.papers) :
                HasTargetTag(fnArg.papers[i]) => fnArg.papers[i] \in Range(fnOut.kept)
        ELSE fnOut.kept = fnArg.papers

\* the filter was applied to two CrossRef papers; it kept one with a marker
\* and dropped one without
C15_Witness ==
    /\ Filtered
    /\ fnArg.src = "crossref"
    /\ Flavoured(fnArg.keyword)
    /\ Len(fnArg.papers) = 2
    /\ Len(fnOut.kept) = 1

\* a is b with some elements left out
RECURSIVE IsSubSeq(_, _)
IsSubSeq(a, b) ==
    IF a = <<>> THEN TRUE
    ELSE IF b = <<>> THEN FALSE
    ELSE IF a[1] = b[1] THEN IsSubSeq(Tail(a), Tail(b))
    ELSE IsSubSeq(a, Tail(b))

\* C16: filtering what the topic filter kept gives the same list again, and
\* what the filter keeps is a sub-sequence of its input, in the input's
\* order; for the verification-domain filter and for filter_tags.
C16_FilterIdempotent ==
    Filtered =>
        /\ fnOut.twice = fnOut.kept
        /\ IsSubSeq(fnOut.kept, fnArg.papers)

\* the verification-domain filter kept two different papers
C16_Witness ==
    /\ Filtered
    /\ fnArg.src = "acm"
    /\ Flavoured(fnArg.keyword)
    /\ Len(fnOut.kept) = 2
    /\ fnOut.kept[1] # fnOut.kept[2]

---------------------------------------------------------------------------
(* The arXiv query: main() specialises the heading keyword for arXiv,      *)
(* chooses the operator and request_paper_with_arxiv_api builds the URL.   *)

\* str.strip(), for blanks
Strip(str) ==
    LET inked == {k \in 1..Len(str) : str[k] # " "}
    IN IF inked = {} THEN <<>>
       ELSE SubSeq(str, CHOOSE k \in inked : \A j \in inked : k <= j,
                        CHOOSE k \in inked : \A j \in inked : j <= k)

VerificationWord == <<"v", "e", "r", "i", "f", "i", "c", "a", "t", "i", "o", "n">>

DigitalVerification == <<"d", "i", "g", "i", "t", "a", "l", " ", "v", "e", "r", "i", "f", "i", "c", "a", "t", "i", "o", "n">>

\* the sources whose "verification" keyword becomes "digital verification"
scoped_sources == {"arxiv", "crossref", "acm", "openalex", "semanticscholar", "ieee"}

specialise_keyword_for_source(base_keyword, source, profile) ==
    LET normalized_keyword == Lower(Strip(base_keyword))
    IN IF profile # "verification" THEN base_keyword
       ELSE IF InStr(<<"u", "v", "m">>, normalized_keyword)
               \/ InStr(<<"d", "i", "g", "i", "t", "a", "l">>, normalized_keyword)
       THEN base_keyword
       ELSE IF normalized_keyword = VerificationWord /\ source \in scoped_sources
       THEN DigitalVerification
       ELSE base_keyword

\* the default of the link parameter, whatever the keyword
ArxivLinkDefault(arxiv_keyword) == "OR"

\* "AND" if len(arxiv_keyword.split()) == 1 else "OR"
ArxivLink(arxiv_keyword) == IF Len(Words(arxiv_keyword)) = 1 THEN "AND" ELSE "OR"

\* urllib.parse.quote(url, safe="%/:=&?~#+!$,;'@()*[]"): of the characters
\* of the model the blank and the double quote are percent-encoded
RECURSIVE Quote(_)
Quote(str) ==
    IF str = <<>> THEN <<>>
    ELSE IF Len(str) = 1
    THEN (IF str[1] = " " THEN <<"%", "2", "0">>
          ELSE IF str[1] = "\"" THEN <<"%", "2", "2">>
          ELSE str)
    ELSE Quote(SubSeq(str, 1, Len(str) \div 2))
         \o Quote(SubSeq(str, (Len(str) \div 2) + 1, Len(str)))

LinkChars(link) == IF link = "AND" THEN <<"A", "N", "D">> ELSE <<"O", "R">>

\* the URL of request_paper_with_arxiv_api
ArxivUrl(keyword, max_results, link) ==
    LET quoted == <<"\"">> \o keyword \o <<"\"">>
    IN Quote(<<"h", "t", "t", "p", ":", "/", "/", "e", "x", "p", "o", "r", "t", ".", "a", "r", "x", "i", "v", ".", "o", "r", "g", "/", "a", "p", "i", "/", "q", "u", "e", "r", "y", "?", "s", "e", "a", "r", "c", "h", "_", "q", "u", "e", "r", "y", "=", "t", "i", ":">>
             \o quoted \o <<"+">> \o LinkChars(link) \o <<"+", "a", "b", "s", ":">>
             \o quoted \o <<"&", "m", "a", "x", "_", "r", "e", "s", "u", "l", "t", "s", "=">>
             \o Pad(max_results, 1) \o <<"&", "s", "o", "r", "t", "B", "y", "=", "l", "a", "s", "t", "U", "p", "d", "a", "t", "e", "d", "D", "a", "t", "e">>)

\* the largest --max_results
MaxResults == 3

\* keywords of the command line
HeadingKeywords ==
    {<<"U", "V", "M">>,
     <<"v", "e", "r", "i", "f", "i", "c", "a", "t", "i", "o", "n">>,
     <<"f", "o", "r", "m", "a", "l", " ", "v", "e", "r", "i", "f", "i", "c", "a", "t", "i", "o", "n">>,
     <<"a", " ", "b", " ", "c">>,
     <<" ", "U", "V", "M">>,
     <<"R", "I", "S", "C", "-", "V">>,
     <<"d", "i", "g", "i", "t", "a", "l">>,
     <<"x", " ", " ", "y">>,
     <<"V", "e", "r", "i", "f", "i", "c", "a", "t", "i", "o", "n">>,
     <<"S", "y", "s", "t", "e", "m", "V", "e", "r", "i", "l", "o", "g">>,
     <<"c", "a", "c", "h", "e", " ", "c", "o", "h", "e", "r", "e", "n", "c", "e">>,
     <<>>}

\* the keywords of the verification profile
ProfileKeywords == {VerificationWord, <<"U", "V", "M">>}

InitQuery ==
    /\ MainIdle
    /\ pjSrc = "arxiv"
    /\ pjPapers = <<>>
    /\ pjCols = <<>>
    /\ pjOut = [state |-> "idle", rows |-> <<>>]
    /\ fn = "query"
    /\ fnArg \in {[keyword |-> kw, profile |-> "general", max_results |-> n] :
                     kw \in HeadingKeywords, n \in 1..MaxResults}
                 \cup {[keyword |-> kw, profile |-> "verification", max_results |-> n] :
                     kw \in ProfileKeywords, n \in 1..MaxResults}
    /\ fnOut = [state |-> "idle", keyword |-> <<>>, link |-> "", url |-> <<>>]

\* main(): the keyword for arXiv and the operator
SpecialiseForArxiv ==
    /\ fn = "query"
    /\ fnOut.state = "idle"
    /\ LET arxiv_keyword == specialise_keyword_for_source(fnArg.keyword, "arxiv",
                                                          fnArg.profile)
       IN fnOut' = [state |-> "specialised", keyword |-> arxiv_keyword,
                    link |-> ArxivLink(arxiv_keyword), url |-> <<>>]
    /\ UNCHANGED <<fn, fnArg, pjSrc, pjPapers, pjCols, pjOut>>
    /\ UNCHANGED mainVars

\* request_paper_with_arxiv_api builds the URL it requests
BuildArxivUrl ==
    /\ fn = "query"
    /\ fnOut.state = "specialised"
    /\ fnOut' = [fnOut EXCEPT !.state = "requested",
                              !.url = ArxivUrl(fnOut.keyword, fnArg.max_results,
                                               fnOut.link)]
    /\ UNCHANGED <<fn, fnArg, pjSrc, pjPapers, pjCols, pjOut>>
    /\ UNCHANGED mainVars

NextQuery == SpecialiseForArxiv \/ BuildArxivUrl

SpecQuery == InitQuery /\ [][NextQuery]_vars

\* the number of words of a str: the starts of its runs of non-blanks
WordCount(str) ==
    Cardinality({k \in 1..Len(str) :
                    str[k] # " " /\ (k = 1 \/ str[k - 1] = " ")})

\* the keyword between the quotes of the title condition of a URL
QueriedKeyword(url) ==
    LET open == CHOOSE k \in 1..Len(url) :
                    /\ SubSeq(url, k, k + 2) = <<"%", "2", "2">>
                    /\ \A j \in 1..(k - 1) : SubSeq(url, j, j + 2) # <<"%", "2", "2">>
        rest == SubSeq(url, open + 3, Len(url))
        shut == CHOOSE k \in 1..Len(rest) :
                    /\ SubSeq(rest, k, k + 2) = <<"%", "2", "2">>
                    /\ \A j \in 1..(k - 1) : SubSeq(rest, j, j + 2) # <<"%", "2", "2">>
    IN SubSeq(rest, 1, shut - 1)

AndJoined == <<"+", "A", "N", "D", "+", "a", "b", "s", ":">>

OrJoined == <<"+", "O", "R", "+", "a", "b", "s", ":">>

\* C18: the URL requested from arXiv joins its title and abstract
\* conditions with AND when the keyword in the URL is one word and with OR
\* when it is more than one word; that keyword is the heading keyword as
\* specialised for arXiv.
C18_OperatorFromQueriedKeyword ==
    (fn = "query" /\ fnOut.state = "requested") =>
        /\ QueriedKeyword(fnOut.url) = Quote(fnOut.keyword)
        /\ WordCount(fnOut.keyword) = 1 =>
              InStr(AndJoined, fnOut.url) /\ ~InStr(OrJoined, fnOut.url)
        /\ WordCount(fnOut.keyword) > 1 =>
              InStr(OrJoined, fnOut.url) /\ ~InStr(AndJoined, fnOut.url)
        /\ (fnArg.profile = "verification" /\ fnArg.keyword = VerificationWord) =>
              fnOut.keyword = DigitalVerification

\* the one-word heading "verification" was sent as "digital verification",
\* joined with OR
C18_Witness ==
    /\ fn = "query"
    /\ fnOut.state = "requested"
    /\ WordCount(fnArg.keyword) = 1
    /\ WordCount(fnOut.keyword) = 2
    /\ InStr(OrJoined, fnOut.url)

---------------------------------------------------------------------------
(* Properties of the DVCon asset pipeline, entry by entry *)

\* download_dvcon_assets handles the entry at entIdx in this step
DownloadStep == pc = "download" /\ pc' = "download" /\ entIdx' = entIdx + 1

\* C19: handling one entry, download_dvcon_assets changes nothing of any
\* entry but the Link of the entry handled.  It changes that Link only to
\* the local path of the entry's asset, and only when the file was there
\* before (and then the directory is left as it was) or was downloaded in
\* full.  After a failed page fetch or a failed download the Link is as
\* before, and the loop goes on to the next entry.
C19_LinkOnlyToLocalAsset ==
    [][pc = "download" =>
         /\ pc' # "download" => entIdx > Len(result.papers)
         /\ DownloadStep =>
              LET old == result.papers[entIdx]
                  new == result'.papers[entIdx]
                  nm  == AssetName(entIdx)
              IN /\ Len(result'.papers) = Len(result.papers)
                 /\ \A j \in 1..Len(result.papers) :
                       j # entIdx => result'.papers[j] = result.papers[j]
                 /\ [new EXCEPT !.Link = old.Link] = old
                 /\ new.Link # old.Link =>
                       /\ new.Link = LocalLink(nm)
                       /\ \/ downloads[nm] # "absent" /\ downloads' = downloads
                          \/ downloads[nm] = "absent" /\ downloads'[nm] = "full"
                 /\ failed' # failed => new.Link = old.Link]_vars

\* of two entries one was linked to its downloaded asset; the page fetch or
\* the download of the other failed and it keeps its URL
C19_Witness ==
    /\ pc = "download"
    /\ entIdx = 3
    /\ \E i, j \in 1..2 :
          /\ result.papers[i].Link = LocalLink(AssetName(i))
          /\ downloads[AssetName(i)] = "full"
          /\ <<j, "download">> \in failed
          /\ result.papers[j].Link = entries0[j].Link

\* extract_abstracts_from_downloaded_dvcon_pdfs handles the entry at entIdx
\* in this step
ExtractStep == pc = "extract" /\ pc' = "extract" /\ entIdx' = entIdx + 1

---------------------------------------------------------------------------
(* Properties of a whole run of main() *)

\* the sources --source stands for: arXiv alone, the DVCon proceedings
\* alone, or arXiv with every enabled extra source
SourcesOf(a) ==
    IF a.source = "arxiv" THEN {"arxiv"}
    ELSE IF a.source = "dvcon" THEN {"dvcon"}
    ELSE {"arxiv"} \cup a.include

\* C24: for each keyword main() calls the wrapper of a source exactly when
\* the source is among those --source stands for: arXiv alone for arxiv,
\* DVCon alone for dvcon, arXiv and the enabled extra sources for all.
C24_SourcesFollowSourceOption ==
    [][(pc = "source" /\ srcIdx <= Len(SourceOrder)) =>
          (pc' = "fetch" <=> Src \in SourcesOf(args))]_vars

\* README.md as the run found it carries the current date
UpToDate == pre.readme.exists /\ LastUpdate(pre.readme) = "today"

\* C25: when README.md carries the current date and --force-update is not
\* given, main() returns at once: no wrapper is called and the output files
\* and their backups stay as they were.  With --force-update the run does
\* not return there.
C25_UpToDateRunChangesNothing ==
    /\ (UpToDate /\ ~args.force) =>
          /\ pc \in {"start", "skipped"}
          /\ fs = pre
          /\ calls = 0
          /\ netCalls = 0
    /\ (UpToDate /\ args.force) => pc # "skipped"

\* main() has returned from the check, both output files being on disk
C25_Witness ==
    /\ pc = "skipped"
    /\ UpToDate
    /\ ~args.force
    /\ fs.issue.exists

\* C26: when a retry wrapper returns, it has slept at most once between
\* each two of its attempts: fewer sleeps than adapter calls, whether the
\* attempts ended in an empty result or in an exception.
C26_SleepOnlyBetweenAttempts ==
    Returned => sleeps < calls

\* C27: handling one entry, download_dvcon_assets puts a file at the local
\* path of an asset only by a download that completed in full (no file is
\* left by a download that failed part-way), and an entry it links to a
\* local path is linked to a file that was downloaded in full.
C27_FilePresentOnlyIfComplete ==
    [][DownloadStep =>
         LET nm == AssetName(entIdx) IN
         /\ \A n \in AssetNames :
               downloads'[n] # downloads[n] => n = nm /\ downloads'[n] = "full"
         /\ result'.papers[entIdx].Link # result.papers[entIdx].Link =>
               downloads'[nm] = "full"]_vars

---------------------------------------------------------------------------
(* extract_abstracts_from_downloaded_dvcon_pdfs: which PDF an entry gets *)

\* PDF names of a download directory, as characters followed by ".pdf"
PdfNames ==
    {<<"A", ".pdf">>, <<"b", ".pdf">>, <<"a", "b", ".pdf">>, <<"c", ".pdf">>}

\* last path segments of entry URLs: urlparse(page_url).path.strip("/")
\* .split("/")[-1], empty for a URL with no path
UrlSegments ==
    {<<>>, <<"a">>, <<"B">>, <<"A", "b">>, <<"a", "b", "c">>, <<"d">>}

\* url_to_pdf: the PDFs under stem.lower()
LoweredDir(dir) == [nm \in {Lower(n) : n \in PdfFiles(dir)} |-> "full"]

\* the PDFs matching_pdf may be for an entry with last URL segment seg
\* (url_stem is the segment lower-cased)
MatchedPdfs(dir, seg) ==
    {n \in PdfFiles(dir) : Lower(n) \in MatchingPdfs(LoweredDir(dir), Lower(seg))}

InitMatch ==
    /\ MainIdle
    /\ pjSrc = "arxiv"
    /\ pjPapers = <<>>
    /\ pjCols = <<>>
    /\ pjOut = [state |-> "idle", rows |-> <<>>]
    /\ fn = "match"
    /\ fnArg \in {[dir |-> d,
                   entry |-> [Title |-> <<"dvcon", 1>>, Link |-> HttpLink(seg),
                              Abstract |-> "", Date |-> dt]] :
                     d \in [PdfNames -> {"absent", "full"}],
                     seg \in UrlSegments,
                     dt \in {EpochDate, "2024-01-01T00:00:00Z"}}
    /\ fnOut = [state |-> "idle", pdf |-> <<>>, entry |-> fnArg.entry]

\* extract_abstracts_from_downloaded_dvcon_pdfs on one entry: no PDF in the
\* directory or none matching leaves the entry as it is; otherwise the
\* abstract and the year are taken from the matching PDF
ExtractFromMatchingPdf ==
    /\ fn = "match"
    /\ fnOut.state = "idle"
    /\ LET cands == MatchedPdfs(fnArg.dir, fnArg.entry.Link.seg) IN
       IF cands = {}
       THEN fnOut' = [state |-> "done", pdf |-> <<>>, entry |-> fnArg.entry]
       ELSE \E nm \in cands, abs \in BOOLEAN, yr \in {"year", "none", "raise"} :
               fnOut' = [state |-> "done", pdf |-> nm,
                         entry |-> ExtractOne(fnArg.entry, abs, yr)]
    /\ UNCHANGED <<fn, fnArg, pjSrc, pjPapers, pjCols, pjOut>>
    /\ UNCHANGED mainVars

NextMatch == ExtractFromMatchingPdf

SpecMatch == InitMatch /\ [][NextMatch]_vars

\* C28: an entry is matched only to a PDF whose lower-cased stem equals,
\* contains or is contained in the entry's non-empty URL stem; an entry
\* whose URL has an empty last path segment is matched to no PDF and is
\* left as it was; when a PDF has exactly the URL stem, that PDF is taken.
C28_MatchByStem ==
    (fn = "match" /\ fnOut.state = "done") =>
        LET us    == Lower(fnArg.entry.Link.seg)
            stem  == Lower(Stem(fnOut.pdf))
            exact == {n \in PdfFiles(fnArg.dir) : Lower(Stem(n)) = us}
        IN /\ fnOut.pdf # <<>> =>
                 /\ us # <<>>
                 /\ Contains(stem, us) \/ Contains(us, stem)
           /\ us = <<>> => fnOut.pdf = <<>> /\ fnOut.entry = fnArg.entry
           /\ (us # <<>> /\ exact # {}) => fnOut.pdf \in exact

---------------------------------------------------------------------------
(* extract_abstracts_from_downloaded_dvcon_pdfs: the year of a PDF *)

\* datetime.datetime.now().year of the run
CurrentYear == 2026

\* the oldest year taken for a publication year
MinYear == 1990

\* the most non-digit characters between "dvcon" and a year near it
NearWindow == 40

\* no year, or the year y
NoYear == [some |-> FALSE, year |-> 0]

SomeYear(y) == [some |-> TRUE, year |-> y]

\* (19|20)\d{2} matches at position k of str
IsYearAt(str, k) ==
    /\ k >= 1
    /\ k + 3 <= Len(str)
    /\ \/ str[k] = "1" /\ str[k + 1] = "9"
       \/ str[k] = "2" /\ str[k + 1] = "0"
    /\ IsDigit(str[k + 2])
    /\ IsDigit(str[k + 3])

\* int(match.group(0))
YearAt(str, k) == IntOf(SubSeq(str, k, k + 3))

\* the start positions of the matches of (19|20)\d{2} from position from on
YearStarts(str, from) == {k \in from..(Len(str) - 3) : IsYearAt(str, k)}

SetMin(S) == CHOOSE x \in S : \A y \in S : x <= y

SetMax(S) == CHOOSE x \in S : \A y \in S : x >= y

\* 1990 <= y <= current_year + 1
Plausible(y) == MinYear <= y /\ y <= CurrentYear + 1

\* re.search(r"(19|20)\d{2}", stem) and the range test on its match
YearOfStem(stem) ==
    LET ks == YearStarts(stem, 1) IN
    IF ks = {} THEN NoYear
    ELSE LET candidate == YearAt(stem, SetMin(ks)) IN
         IF Plausible(candidate) THEN SomeYear(candidate) ELSE NoYear

\* re.finditer(r"(19|20)\d{2}", text): the matches from the left, none
\* overlapping an earlier one
RECURSIVE YearMatches(_, _)
YearMatches(text, from) ==
    LET ks == YearStarts(text, from) IN
    IF ks = {} THEN <<>>
    ELSE LET k == SetMin(ks) IN <<YearAt(text, k)>> \o YearMatches(text, k + 4)

\* the characters of text from position a to position b are no digits
NoDigits(text, a, b) == \A k \in a..b : ~IsDigit(text[k])

\* re.search(rf"(dvcon[^0-9]{0,40}{y})|({y}[^0-9]{0,40}dvcon)", lowered_text)
NearDvcon(text, y) ==
    LET low   == Lower(text)
        dvcon == <<"d", "v", "c", "o", "n">>
        ys    == Pad(y, 4)
    IN \E i \in 1..(Len(low) - 4) :
          /\ SubSeq(low, i, i + 4) = dvcon
          /\ \E gap \in 0..NearWindow :
                \/ /\ i + 8 + gap <= Len(low)
                   /\ SubSeq(low, i + 5 + gap, i + 8 + gap) = ys
                   /\ NoDigits(low, i + 5, i + 4 + gap)
                \/ /\ i - gap - 4 >= 1
                   /\ SubSeq(low, i - gap - 4, i - gap - 1) = ys
                   /\ NoDigits(low, i - gap, i - 1)

\* the year inferred from the text of the first page
YearOfText(text) ==
    LET found == YearMatches(text, 1)
        year_candidates == {found[k] : k \in {j \in 1..Len(found) : Plausible(found[j])}}
        near == {y \in year_candidates : NearDvcon(text, y)}
    IN IF text = <<>> \/ year_candidates = {} THEN NoYear
       ELSE IF near # {} THEN SomeYear(SetMax(near))
       ELSE SomeYear(SetMax(year_candidates))

\* inferred_year of a PDF with file name stem and first-page text
InferYear(stem, text) ==
    IF YearOfStem(stem).some THEN YearOfStem(stem) ELSE YearOfText(text)

\* parts that file name stems and first pages are put together from
PartDvcon == <<"D", "V", "C", "o", "n">>

PartBlank == <<" ">>

PartDigit == <<"7">>

PartFar == [k \in 1..(NearWindow + 1) |-> "x"]

PartOld == <<"1", "9", "8", "5">>

Part2022 == <<"2", "0", "2", "2">>

Part2024 == <<"2", "0", "2", "4">>

TextParts == {PartDvcon, PartBlank, PartDigit, PartFar, PartOld, Part2022, Part2024}

\* the most parts of a first page
MaxParts == 5

RECURSIVE Flatten(_)
Flatten(parts) ==
    IF parts = <<>> THEN <<>> ELSE parts[1] \o Flatten(Tail(parts))

\* DVConEU_2025_paper_132, paper_132, DVCon1985_2024, slides_2099
YearStems ==
    {PartDvcon \o <<"E", "U", "_", "2", "0", "2", "5", "_", "p", "a", "p", "e", "r", "_", "1", "3", "2">>,
     <<"p", "a", "p", "e", "r", "_", "1", "3", "2">>,
     PartDvcon \o PartOld \o <<"_">> \o Part2024,
     <<"s", "l", "i", "d", "e", "s", "_", "2", "0", "9", "9">>}

InitYear ==
    /\ MainIdle
    /\ pjSrc = "arxiv"
    /\ pjPapers = <<>>
    /\ pjCols = <<>>
    /\ pjOut = [state |-> "idle", rows |-> <<>>]
    /\ fn = "year"
    /\ \E n \in 0..MaxParts : \E parts \in [1..n -> TextParts], stem \in YearStems :
          fnArg = [stem |-> stem, text |-> Flatten(parts)]
    /\ fnOut = [state |-> "idle", inferred |-> NoYear]

\* the year inference of one matched PDF
InferYearOfPdf ==
    /\ fn = "year"
    /\ fnOut.state = "idle"
    /\ fnOut' = [state |-> "done", inferred |-> InferYear(fnArg.stem, fnArg.text)]
    /\ UNCHANGED <<fn, fnArg, pjSrc, pjPapers, pjCols, pjOut>>
    /\ UNCHANGED mainVars

NextYear == InferYearOfPdf

SpecYear == InitYear /\ [][NextYear]_vars

\* the plausible four-digit years embedded in str
YearsIn(str) ==
    {y \in {YearAt(str, k) : k \in YearStarts(str, 1)} : Plausible(y)}

\* the plausible years of text with at most NearWindow characters between
\* them and a "DVCon" (in any case)
YearsNearDvcon(text) ==
    LET low == Lower(text) IN
    {y \in YearsIn(text) :
        \E i \in 1..(Len(low) - 4), k \in YearStarts(text, 1) :
           /\ SubSeq(low, i, i + 4) = <<"d", "v", "c", "o", "n">>
           /\ YearAt(text, k) = y
           /\ \/ k >= i + 5 /\ k - (i + 5) <= NearWindow
              \/ k + 4 <= i /\ i - (k + 4) <= NearWindow}

\* C21: the inferred year is a (plausible) year embedded in the file name
\* when there is one; otherwise a year within 40 characters of "DVCon" on
\* the first page when there is one; otherwise the largest plausible year
\* of the page; and no year when the page has none either.
C21_YearPriority ==
    (fn = "year" /\ fnOut.state = "done") =>
        LET y == fnOut.inferred IN
        IF YearsIn(fnArg.stem) # {}
        THEN y.some /\ y.year \in YearsIn(fnArg.stem)
        ELSE IF YearsNearDvcon(fnArg.text) # {}
        THEN y.some /\ y.year \in YearsNearDvcon(fnArg.text)
        ELSE IF YearsIn(fnArg.text) # {}
        THEN y = SomeYear(SetMax(YearsIn(fnArg.text)))
        ELSE y = NoYear

---------------------------------------------------------------------------
(* request_papers_with_openalex: the abstract of an inverted index *)

\* item.get("abstract_inverted_index"): None (absent), or a dict
\* {word: [positions...]}, a sequence of items in the provider's order
NoIndex == [t |-> "none", d |-> <<>>]

IndexV(items) == [t |-> "dict", d |-> items]

\* for idx in idxs: positions[idx] = word
RECURSIVE PutAll(_, _, _)
PutAll(positions, word, idxs) ==
    IF idxs = <<>> THEN positions
    ELSE PutAll((idxs[1] :> word) @@ positions, word, Tail(idxs))

\* for word, idxs in abstract_inverted.items(): ...
RECURSIVE PositionsOf(_, _)
PositionsOf(items, positions) ==
    IF items = <<>> THEN positions
    ELSE PositionsOf(Tail(items), PutAll(positions, items[1].k, items[1].v))

\* sorted(positions.keys())
RECURSIVE SortedKeys(_)
SortedKeys(S) ==
    IF S = {} THEN <<>>
    ELSE LET m == CHOOSE x \in S : \A y \in S : x <= y
         IN <<m>> \o SortedKeys(S \ {m})

\* the words of the index, each once, in the order of the dict
AbstractOfKeys(index) == Join(Keys(index.d), <<" ">>)

\* abstract_text of an item: "" for an absent or empty index, otherwise
\* the words at the recorded positions, in position order, joined by " "
AbstractOfIndex(index) ==
    IF index.t = "none" \/ index.d = <<>> THEN <<>>
    ELSE LET positions == PositionsOf(index.d, <<>>)
             keys == SortedKeys(DOMAIN positions)
             abstract_words == [i \in 1..Len(keys) |-> positions[keys[i]]]
         IN Join(abstract_words, <<" ">>)

\* the most words of an abstract
MaxWords == 4

AbstractWords == {<<"a">>, <<"o", "f">>, <<"U", "V", "M">>}

\* the positions (from 0) at which word stands in words, ascending
PositionsIn(words, word) ==
    SortedKeys({i - 1 : i \in {j \in 1..Len(words) : words[j] = word}})

\* the distinct words of a sequence, in the order they first occur
RECURSIVE Distinct(_)
Distinct(words) ==
    IF words = <<>> THEN <<>>
    ELSE LET init == SubSeq(words, 1, Len(words) - 1)
             w == words[Len(words)]
         IN IF \E i \in 1..Len(init) : init[i] = w
            THEN Distinct(init) ELSE Append(Distinct(init), w)

\* the inverted index of a word sequence
InvertedIndex(words) ==
    LET ws == Distinct(words) IN
    [i \in 1..Len(ws) |-> Item(ws[i], PositionsIn(words, ws[i]))]

\* the same index with its items in the opposite order
Reversed(seq) == [i \in 1..Len(seq) |-> seq[Len(seq) + 1 - i]]

InitAbstract ==
    /\ MainIdle
    /\ pjSrc = "openalex"
    /\ pjPapers = <<>>
    /\ pjCols = <<>>
    /\ pjOut = [state |-> "idle", rows |-> <<>>]
    /\ fn = "abstract"
    /\ \E n \in 0..MaxWords : \E words \in [1..n -> AbstractWords] :
          \/ fnArg = [words |-> words, index |-> IndexV(InvertedIndex(words))]
          \/ fnArg = [words |-> words,
                      index |-> IndexV(Reversed(InvertedIndex(words)))]
          \/ n = 0 /\ fnArg = [words |-> words, index |-> NoIndex]
    /\ fnOut = [state |-> "idle", abstract |-> <<>>]

\* request_papers_with_openalex builds the abstract of one item
ReconstructAbstract ==
    /\ fn = "abstract"
    /\ fnOut.state = "idle"
    /\ fnOut' = [state |-> "done",
                 abstract |-> The({AbstractOfIndex(ix) : ix \in {fnArg.index}})]
    /\ UNCHANGED <<fn, fnArg, pjSrc, pjPapers, pjCols, pjOut>>
    /\ UNCHANGED mainVars

NextAbstract == ReconstructAbstract

SpecAbstract == InitAbstract /\ [][NextAbstract]_vars

\* C22: the abstract of the inverted index of a word sequence is the words
\* of the sequence, in their order, with one blank between each two; the
\* abstract of an absent or empty index is the empty string.
C22_InvertedIndexRoundTrip ==
    (fn = "abstract" /\ fnOut.state = "done") =>
        IF fnArg.words = <<>>
        THEN fnOut.abstract = <<>>
        ELSE Split(fnOut.abstract, " ") = fnArg.words

\* a word stands at two positions of the abstract, and the index lists its
\* words in another order than the abstract has them
C22_Witness ==
    /\ fn = "abstract"
    /\ fnOut.state = "done"
    /\ Len(fnArg.words) = MaxWords
    /\ fnArg.words[1] = fnArg.words[3]
    /\ fnArg.words[1] # fnArg.words[2]
    /\ fnArg.index.d[1].k = fnArg.words[2]
    /\ Split(fnOut.abstract, " ") = fnArg.words

---------------------------------------------------------------------------
(* request_papers_with_acm_api: the pagination loop *)

\* the largest max_results of a call
MaxAcmResults == 3

\* the most items of one page of the provider
MaxPageItems == 4

\* the largest "size" the adapter asks for
AcmPageCap == 100

\* page_size = min(max_results, 100)
PageSize(max_results) ==
    IF max_results < AcmPageCap THEN max_results ELSE AcmPageCap

\* what one request gives: "fail" (requests.RequestException), "badjson"
\* (json.JSONDecodeError), "notdict" (a payload without .get: the
\* AttributeError leaves the function), or a page of n items; the i-th item
\* of page p is <<p, i, ok>>, ok telling whether it can be normalised
AcmPages ==
    {[kind |-> k, n |-> 0, bad |-> 0] : k \in {"fail", "badjson", "notdict"}}
    \cup {[kind |-> "items", n |-> n, bad |-> b] :
             n \in 0..MaxPageItems, b \in 0..1}

ItemsOf(resp, page) == [i \in 1..resp.n |-> <<page, i, i > resp.bad>>]

\* a loop body that appends the whole page
RECURSIVE CollectAll(_, _, _)
CollectAll(collected, items, max_results) ==
    IF items = <<>> THEN collected
    ELSE CollectAll(Append(collected, items[1]), Tail(items), max_results)

\* for item in items: collected.append(item);
\*     if len(collected) >= max_results: break
RECURSIVE Collect(_, _, _)
Collect(collected, items, max_results) ==
    IF items = <<>> THEN collected
    ELSE IF Len(collected) + 1 >= max_results
    THEN Append(collected, items[1])
    ELSE Collect(Append(collected, items[1]), Tail(items), max_results)

\* the papers of the collected items: an item that cannot be normalised is
\* logged and left out
RECURSIVE PapersOf(_)
PapersOf(collected) ==
    IF collected = <<>> THEN <<>>
    ELSE IF collected[1][3]
    THEN <<collected[1]>> \o PapersOf(Tail(collected))
    ELSE PapersOf(Tail(collected))

InitAcm ==
    /\ MainIdle
    /\ pjSrc = "acm"
    /\ pjPapers = <<>>
    /\ pjCols = <<>>
    /\ pjOut = [state |-> "idle", rows |-> <<>>]
    /\ fn = "acm"
    /\ fnArg \in {[max_results |-> n] : n \in 0..MaxAcmResults}
    /\ fnOut = [state |-> "loop", page |-> 0, size |-> PageSize(fnArg.max_results),
                collected |-> <<>>, lastPage |-> 0, papers |-> <<>>]

\* one turn of "while len(collected) < max_results", with the response of
\* the provider to the request of this page
RequestPage ==
    /\ fn = "acm"
    /\ fnOut.state = "loop"
    /\ Len(fnOut.collected) < fnArg.max_results
    /\ \E resp \in AcmPages :
          IF resp.kind = "notdict"
          THEN fnOut' = [fnOut EXCEPT !.state = "raised"]
          ELSE IF resp.kind \in {"fail", "badjson"} \/ resp.n = 0
          THEN fnOut' = [fnOut EXCEPT !.state = "broke"]
          ELSE fnOut' = [fnOut EXCEPT
                            !.collected = Collect(fnOut.collected,
                                                  ItemsOf(resp, fnOut.page),
                                                  fnArg.max_results),
                            !.lastPage = resp.n,
                            !.page = fnOut.page + 1]
    /\ UNCHANGED <<fn, fnArg, pjSrc, pjPapers, pjCols, pjOut>>
    /\ UNCHANGED mainVars

\* the loop is left (its condition is false, or a break) and the collected
\* items are normalised and returned
ReturnPapers ==
    /\ fn = "acm"
    /\ \/ fnOut.state = "broke"
       \/ fnOut.state = "loop" /\ Len(fnOut.collected) >= fnArg.max_results
    /\ fnOut' = [fnOut EXCEPT !.state = "returned",
                              !.papers = PapersOf(fnOut.collected)]
    /\ UNCHANGED <<fn, fnArg, pjSrc, pjPapers, pjCols, pjOut>>
    /\ UNCHANGED mainVars

NextAcm == RequestPage \/ ReturnPapers

SpecAcm == InitAcm /\ [][NextAcm]_vars

\* every request returns or raises within its timeout, and the interpreter
\* goes on to the next statement
FairSpecAcm == SpecAcm /\ WF_vars(NextAcm)

\* C23: the pagination loop ends, whatever the pages are: the adapter
\* returns (or an error leaves it).  A turn of the loop whose request fails
\* or whose page has no item is the last; no request is made once
\* max_results items are collected; and neither the collected items nor the
\* returned papers are ever more than max_results.
C23_PaginationTerminates ==
    /\ <>(fnOut.state \in {"returned", "raised"})
    /\ [](/\ Len(fnOut.collected) <= fnArg.max_results
          /\ Len(fnOut.papers) <= fnArg.max_results
          /\ fnOut.page <= fnArg.max_results)
    /\ [][fnOut.state = "loop" =>
            /\ fnOut'.collected = fnOut.collected =>
                  fnOut'.state \in {"broke", "raised", "returned"}
            /\ Len(fnOut.collected) >= fnArg.max_results =>
                  fnOut'.state = "returned"]_vars

\* two pages were requested; the second held more items than were still
\* wanted and only those wanted were taken; one item could not be
\* normalised
C23_Witness ==
    /\ fn = "acm"
    /\ fnOut.state = "returned"
    /\ fnOut.page = 2
    /\ Len(fnOut.collected) = fnArg.max_results
    /\ fnOut.collected[Len(fnOut.collected)][2] < fnOut.lastPage
    /\ Len(fnOut.papers) < Len(fnOut.collected)

---------------------------------------------------------------------------
(* main(): the two tables of one source *)

\* the longest list of papers a source gives, and the largest issues_results
MaxListed == 3

\* papers[: issues_results] for issues_results >= 0
Slice(papers, n) == SubSeq(papers, 1, IF n < Len(papers) THEN n ELSE Len(papers))

\* the lists a source returns, in the order of the provider
ListedPapers == UNION {[1..n -> SoundPapers] : n \in 0..MaxListed}

InitIssue ==
    /\ MainIdle
    /\ pjSrc = "arxiv"
    /\ pjPapers = <<>>
    /\ pjCols = <<>>
    /\ pjOut = [state |-> "idle", rows |-> <<>>]
    /\ fn = "tables"
    /\ fnArg \in {[papers |-> ps, issues_results |-> n] :
                     ps \in ListedPapers, n \in 0..MaxListed}
    /\ fnOut = [state |-> "idle", rm_table |-> Table(<<>>, <<>>),
                is_table |-> Table(<<>>, <<>>)]

\* rm_table = generate_table(papers)
\* is_table = generate_table(papers[: args.issues_results],
\*                           ignore_keys=["Abstract"])
WriteTables ==
    /\ fn = "tables"
    /\ fnOut.state = "idle"
    /\ fnOut' = [state |-> "done",
                 rm_table |-> generate_table(fnArg.papers, {}),
                 is_table |-> generate_table(Slice(fnArg.papers, fnArg.issues_results),
                                             {"Abstract"})]
    /\ UNCHANGED <<fn, fnArg, pjSrc, pjPapers, pjCols, pjOut>>
    /\ UNCHANGED mainVars

NextIssue == WriteTables

SpecIssue == InitIssue /\ [][NextIssue]_vars

\* the papers of the rows of a table, in the order of the rows
RowPapers(rows) == [i \in 1..Len(rows) |-> rows[i].paper]

\* C29: the rows of the issue table are the rows of the first
\* issues_results papers of the README table, in the same order.
C29_IssueRowsAreFirstReadmeRows ==
    (fn = "tables" /\ fnOut.state = "done") =>
        /\ fnOut.rm_table.state = "value"
        /\ fnOut.is_table.state = "value"
        /\ RowPapers(fnOut.is_table.rows)
              = Slice(RowPapers(fnOut.rm_table.rows), fnArg.issues_results)

---------------------------------------------------------------------------
(* The end of a run of main() *)

\* every provider call returns or raises, every sleep ends, and the
\* interpreter goes on to the next statement
FairSpec == Spec /\ WF_vars(Next)

\* the position of a source in the order of main()
SourcePosition(src) == CHOOSE k \in 1..Len(SourceOrder) : SourceOrder[k] = src

\* the sections a file holds under one keyword heading stand in the order
\* of main()'s source blocks
SectionsInOrder(file) ==
    \A i, j \in 1..Len(file.content) :
       (/\ i < j
        /\ file.content[i][1] = "section"
        /\ file.content[j][1] = "section"
        /\ \A k \in i..j : file.content[k][1] # "keyword")
          => SourcePosition(file.content[i][2]) < SourcePosition(file.content[j][2])

\* C30: a run that got past the already-updated check ends, and ends either
\* completed (both outputs written for every keyword, the archive made, no
\* backup left, no exception) or aborted (restore_files was called and the
\* exception leaves main()); both are final.  The sources of a keyword are
\* processed one at a time, in the order DVCon, IEEE, ACM, CrossRef,
\* OpenAlex, Semantic Scholar, arXiv.
C30_RunEndsCompletedOrAborted ==
    /\ (pc = "backup") ~> (pc \in {"done", "aborted"})
    /\ [](pc = "done" =>
            /\ OutputsWritten
            /\ fs.archive.exists
            /\ ~fs.readmeBk.exists
            /\ ~fs.issueBk.exists
            /\ raised = "")
    /\ [](pc = "aborted" => raised # "")
    /\ [](pc = "source" => calls = 0 /\ attempt = 0)
    /\ [](SectionsInOrder(fs.readme) /\ SectionsInOrder(fs.issue))
    /\ [][/\ (pc # "aborted" /\ pc' = "aborted") => fs' = restore_files(fs)
          /\ pc \in {"done", "aborted"} => pc' = pc
          /\ srcIdx' \in {srcIdx, srcIdx + 1, 1}
          /\ (pc = "source" /\ pc' = "fetch") =>
                Src = SourceOrder[srcIdx] /\ srcIdx' = srcIdx]_vars

\* a completed run over an earlier README.md that wrote the sections of
\* three sources, arXiv's last
C30_Witness ==
    /\ pc = "done"
    /\ pre.readme.exists
    /\ fs.archive.exists
    /\ \E a, b, c \in 1..Len(fs.readme.content) :
          /\ a < b
          /\ b < c
          /\ fs.readme.content[a][1] = "section"
          /\ fs.readme.content[a][2] = "ieee"
          /\ fs.readme.content[b][1] = "section"
          /\ fs.readme.content[b][2] = "acm"
          /\ fs.readme.content[c][1] = "section"
          /\ fs.readme.content[c][2] = "arxiv"

====
